---- MODULE Spec2Model ----
(***************************************************************************)
(* CafeDB (src/cafedb.py): a JSON-file document store.                     *)
(*                                                                         *)
(* The module models                                                       *)
(*   - the condition evaluator (_match_wildcard, _match_condition,         *)
(*     _build_condition_function) as operators computed the way the code   *)
(*     computes them, over tagged Python values;                           *)
(*   - the store object (self._data, the RLock hold count, the snapshots   *)
(*     of the open transactions), the three files of the persistence       *)
(*     protocol (database, .backup, .tmp) and every public mutation, with  *)
(*     _write_db split at its file-system steps so that a crash can fall   *)
(*     between any two of them.                                            *)
(*                                                                         *)
(* Python values are tagged pairs: <<"int", n>>, <<"str", chars>>,         *)
(* <<"bool", b>>, <<"list", seq>>.  A str is a sequence of one-character   *)
(* strings.  A dict is a function from keys to values; a dict whose        *)
(* iteration order matters (a filter, an operator mapping) is a sequence   *)
(* of <<key, value>> pairs in insertion order.                             *)
(***************************************************************************)
EXTENDS Integers, Sequences, FiniteSets, TLC

VARIABLES
    \* ---- the store object and its files (specification Spec) ----
    pc,         \* position of the single caller thread: "idle", a step of _write_db, or "dead"
    wctx,       \* the caller of the running _write_db: "op", "commit", "init" ("none" when idle)
    data,       \* self._data
    txn,        \* backup_data of every open transaction, innermost last
    lock,       \* hold count of self._lock (threading.RLock)
    backupOn,   \* self.backup
    clock,      \* the wall clock read by datetime.now()
    db,         \* the file at db_path
    bak,        \* the file at db_path.with_suffix(".backup")
    tmp,        \* the file at db_path + ".tmp"
    ret,        \* the last completed call: its name, its table argument and what it raised
    entry,      \* history: for every open transaction, self._data at its entry (mem) and
                \* whether the file then held the collections of self._data (sync)
    wOld,       \* history: the file at db_path when the running _write_db started
    legit,      \* history: at a crash, the collections a reopen may legitimately load
    crashes,    \* history: how many times the process died
    fails,      \* history: how many durable writes failed
    \* ---- the condition evaluator (specifications SpecWild, SpecFilter) ----
    wVal, wPat, wRes,       \* _match_wildcard / literal / $like: field value, pattern, results
    fRows, fFilter, fRes,   \* select over one collection: its records, the filter, the result
    pArgs,      \* select: the arguments order_by, reverse, offset and limit (specification SpecPage)
    \* ---- the objects select hands out (specification SpecCopy) ----
    heap,       \* the dict and list objects, by identity
    held,       \* the collection: the identities of its records
    got,        \* what select returned: the identities of the records of the result
    \* ---- a second thread on the same store object (specification SpecThreads) ----
    other       \* its position, its hold count of self._lock and what its last call read

storeVars == <<pc, wctx, data, txn, lock, backupOn, clock, db, bak, tmp, ret, entry, wOld, legit,
              crashes, fails>>
wildVars == <<wVal, wPat, wRes>>
filterVars == <<fRows, fFilter, fRes>>
queryVars == <<pArgs, heap, held, got, other>>
evalVars == <<wVal, wPat, wRes, fRows, fFilter, fRes, pArgs, heap, held, got, other>>
vars == <<pc, wctx, data, txn, lock, backupOn, clock, db, bak, tmp, ret, entry, wOld, legit,
          crashes, fails, wVal, wPat, wRes, fRows, fFilter, fRes, pArgs, heap, held, got, other>>

(***************************************************************************)
(* Bounds.                                                                 *)
(***************************************************************************)
MaxRows == 2        \* records per collection
MaxTables == 1      \* collections in the store
MaxCrashes == 1     \* crashes of the process
MaxFails == 1       \* durable writes that fail
MaxDepth == 1       \* nesting depth of transactions in SpecTxn
MaxNest == 2        \* nesting depth of transactions in SpecNest
MaxTime == 2        \* distinct readings of the clock
MaxPatLen == 2      \* length of a wildcard pattern
MaxStrLen == 2      \* length of a string field value

(***************************************************************************)
(* Characters and strings.                                                 *)
(***************************************************************************)
Min(a, b) == IF a < b THEN a ELSE b

\* Unicode code point of a character (the order Python compares str by).
Ord(c) ==
    CASE c = "*" -> 42 [] c = "." -> 46
      [] c = "0" -> 48 [] c = "1" -> 49 [] c = "2" -> 50 [] c = "3" -> 51 [] c = "4" -> 52
      [] c = "5" -> 53 [] c = "6" -> 54 [] c = "7" -> 55 [] c = "8" -> 56 [] c = "9" -> 57
      [] c = "?" -> 63 [] c = "A" -> 65 [] c = "B" -> 66 [] c = "T" -> 84
      [] c = "a" -> 97 [] c = "b" -> 98 [] c = "t" -> 116

\* str.lower() on one character.
LowerChar(c) == CASE c = "A" -> "a" [] c = "B" -> "b" [] c = "T" -> "t" [] OTHER -> c

\* str.lower().
Lower(s) == [i \in 1..Len(s) |-> LowerChar(s[i])]

Digit(d) == CASE d = 0 -> "0" [] d = 1 -> "1" [] d = 2 -> "2" [] d = 3 -> "3" [] d = 4 -> "4"
              [] d = 5 -> "5" [] d = 6 -> "6" [] d = 7 -> "7" [] d = 8 -> "8" [] d = 9 -> "9"

\* str(n) for a natural number n: its decimal digits.
RECURSIVE IntStr(_)
IntStr(n) == IF n < 10 THEN <<Digit(n)>> ELSE IntStr(n \div 10) \o <<Digit(n % 10)>>

IsStr(v) == v[1] = "str"
IsInt(v) == v[1] = "int"

\* str(value): a str is itself, an int its decimal digits.
PyStr(v) == IF IsStr(v) THEN v[2] ELSE IntStr(v[2])

\* str.replace(old, new) for a one-character old.
RECURSIVE Replace(_, _, _)
Replace(s, old, new) ==
    IF s = <<>> THEN <<>>
    ELSE (IF Head(s) = old THEN new ELSE <<Head(s)>>) \o Replace(Tail(s), old, new)

\* c in s, for a character c.
HasChar(s, c) == \E i \in 1..Len(s) : s[i] = c

\* sub in s (substring test of str.__contains__).
IsSubstring(sub, s) ==
    \E i \in 1..(Len(s) - Len(sub) + 1) : SubSeq(s, i, i + Len(sub) - 1) = sub

StartsWith(s, p) == Len(p) <= Len(s) /\ SubSeq(s, 1, Len(p)) = p
EndsWith(s, p) == Len(p) <= Len(s) /\ SubSeq(s, Len(s) - Len(p) + 1, Len(s)) = p

\* s < t for two str: lexicographic by code point.
RECURSIVE StrLess(_, _)
StrLess(s, t) ==
    IF t = <<>> THEN FALSE
    ELSE IF s = <<>> THEN TRUE
    ELSE IF Ord(Head(s)) # Ord(Head(t)) THEN Ord(Head(s)) < Ord(Head(t))
    ELSE StrLess(Tail(s), Tail(t))

(***************************************************************************)
(* The regular expressions the code builds: literal characters, '.', and   *)
(* an atom followed by '*'; re.IGNORECASE.  The alphabet has no newline,   *)
(* so '.' matches every character and '$' only the end of the string.      *)
(***************************************************************************)
ReAtom(a, c) == a = "." \/ LowerChar(a) = LowerChar(c)

\* Does re match a prefix of s (anchored = FALSE) or the whole of s (anchored = TRUE)?
RECURSIVE ReMatchHere(_, _, _)
ReMatchHere(re, s, anchored) ==
    IF re = <<>> THEN (~anchored \/ s = <<>>)
    ELSE IF Len(re) >= 2 /\ re[2] = "*"
         THEN \/ ReMatchHere(SubSeq(re, 3, Len(re)), s, anchored)
              \/ (s # <<>> /\ ReAtom(re[1], Head(s)) /\ ReMatchHere(re, Tail(s), anchored))
         ELSE s # <<>> /\ ReAtom(re[1], Head(s)) /\ ReMatchHere(Tail(re), Tail(s), anchored)

\* re.compile fails ("nothing to repeat" / "multiple repeat") on a '*' with no atom before it.
ReValid(re) ==
    /\ (re # <<>> => re[1] # "*")
    /\ \A i \in 1..(Len(re) - 1) : ~(re[i] = "*" /\ re[i + 1] = "*")

\* re.search(re, s, re.IGNORECASE): a match starting anywhere.
ReSearch(re, s) == \E i \in 1..(Len(s) + 1) : ReMatchHere(re, SubSeq(s, i, Len(s)), FALSE)

\* _match_wildcard(value, pattern): the pattern becomes the regex
\* ^pattern$ with '*' replaced by '.*' and then '?' by '.'; nothing is escaped.
MatchWildcard(value, pattern) ==
    LET regex_pattern == Replace(Replace(pattern, "*", <<".", "*">>), "?", <<".">>)
    IN ReMatchHere(regex_pattern, PyStr(value), TRUE)

(***************************************************************************)
(* Python comparisons on tagged values.  A result is "T", "F" or the name  *)
(* of the exception raised.                                                *)
(***************************************************************************)
Bool(b) == IF b THEN "T" ELSE "F"

\* a == b
PyEq(a, b) == a[1] = b[1] /\ a[2] = b[2]

\* a < b: defined between two int and between two str, TypeError otherwise.
PyLess(a, b) ==
    IF IsInt(a) /\ IsInt(b) THEN Bool(a[2] < b[2])
    ELSE IF IsStr(a) /\ IsStr(b) THEN Bool(StrLess(a[2], b[2]))
    ELSE "TypeError"

\* a <= b
PyLessEq(a, b) ==
    IF IsInt(a) /\ IsInt(b) THEN Bool(a[2] <= b[2])
    ELSE IF IsStr(a) /\ IsStr(b) THEN Bool(a[2] = b[2] \/ StrLess(a[2], b[2]))
    ELSE "TypeError"

\* value in lst: for a list lst some element equals value; for a str lst, value is a
\* substring of it (a value that is no str raises TypeError: see OpStep).
PyIn(value, lst) ==
    IF IsStr(lst) THEN IsStr(value) /\ IsSubstring(value[2], lst[2])
    ELSE \E i \in 1..Len(lst[2]) : PyEq(lst[2][i], value)

\* key in d, d[key] and len(d) for a dict kept as a sequence of <<key, value>> pairs.
HasKey(d, k) == \E i \in 1..Len(d) : d[i][1] = k
Get(d, k) == d[CHOOSE i \in 1..Len(d) : d[i][1] = k][2]

KnownOps == {"$eq", "$ne", "$gt", "$gte", "$lt", "$lte", "$in", "$nin", "$like", "$regex",
             "$contains", "$startswith", "$endswith", "$between", "$exists"}

\* One turn of the loop of _match_condition over condition.items():
\* "next" when the loop goes on, otherwise what the function returns or raises.
OpStep(value, op, op_value) ==
    CASE op = "$eq" -> IF ~PyEq(value, op_value) THEN "F" ELSE "next"
      [] op = "$ne" -> IF PyEq(value, op_value) THEN "F" ELSE "next"
      [] op = "$gt" -> IF PyLess(op_value, value) = "T" THEN "next" ELSE "F"
      [] op = "$gte" -> IF PyLessEq(op_value, value) = "T" THEN "next" ELSE "F"
      [] op = "$lt" -> IF PyLess(value, op_value) = "T" THEN "next" ELSE "F"
      [] op = "$lte" -> IF PyLessEq(value, op_value) = "T" THEN "next" ELSE "F"
      [] op = "$in" ->
            IF IsStr(op_value) /\ ~IsStr(value) THEN "TypeError"
            ELSE IF ~PyIn(value, op_value) THEN "F" ELSE "next"
      [] op = "$nin" ->
            IF IsStr(op_value) /\ ~IsStr(value) THEN "TypeError"
            ELSE IF PyIn(value, op_value) THEN "F" ELSE "next"
      [] op = "$like" -> IF ~MatchWildcard(value, op_value[2]) THEN "F" ELSE "next"
      [] op = "$regex" ->
            IF ~ReValid(op_value[2]) THEN "QueryError"
            ELSE IF ~ReSearch(op_value[2], PyStr(value)) THEN "F" ELSE "next"
      [] op = "$contains" ->
            IF ~IsStr(value) \/ ~IsSubstring(Lower(op_value[2]), Lower(value[2]))
            THEN "F" ELSE "next"
      [] op = "$startswith" ->
            IF ~IsStr(value) \/ ~StartsWith(Lower(value[2]), Lower(op_value[2]))
            THEN "F" ELSE "next"
      [] op = "$endswith" ->
            IF ~IsStr(value) \/ ~EndsWith(Lower(value[2]), Lower(op_value[2]))
            THEN "F" ELSE "next"
      [] op = "$between" ->
            IF op_value[1] # "list" \/ Len(op_value[2]) # 2 THEN "QueryError"
            ELSE IF PyLessEq(op_value[2][1], value) = "T" /\ PyLessEq(value, op_value[2][2]) = "T"
                 THEN "next" ELSE "F"
      [] op = "$exists" -> Bool(op_value[2])
      [] OTHER -> "QueryError"

\* A mutant of MatchOps: only the first operator of the mapping is evaluated.
MatchOpsFirstOnly(value, ops) ==
    IF ops = <<>> THEN "T"
    ELSE LET r == OpStep(value, ops[1][1], ops[1][2])
         IN IF r = "next" THEN "T" ELSE r

\* The loop of _match_condition over the operators of a mapping, in dict order.
RECURSIVE MatchOps(_, _)
MatchOps(value, ops) ==
    IF ops = <<>> THEN "T"
    ELSE LET r == OpStep(value, ops[1][1], ops[1][2])
         IN IF r = "next" THEN MatchOps(value, Tail(ops)) ELSE r

\* _match_condition(value, condition)
MatchCondition(value, condition) ==
    IF condition[1] = "dict" THEN MatchOps(value, condition[2])
    ELSE IF IsStr(condition) /\ (HasChar(condition[2], "*") \/ HasChar(condition[2], "?"))
         THEN Bool(MatchWildcard(value, condition[2]))
         ELSE Bool(PyEq(value, condition))

\* A mutant of ConditionFunc: the condition on a field the record lacks is passed over.
RECURSIVE ConditionFuncSkipsAbsent(_, _)
ConditionFuncSkipsAbsent(filters, row) ==
    IF filters = <<>> THEN "T"
    ELSE IF filters[1][2][1] = "dict" /\ HasKey(filters[1][2][2], "$exists")
         THEN IF Get(filters[1][2][2], "$exists")[2] # (filters[1][1] \in DOMAIN row)
              THEN "F" ELSE ConditionFuncSkipsAbsent(Tail(filters), row)
    ELSE IF filters[1][1] \notin DOMAIN row THEN ConditionFuncSkipsAbsent(Tail(filters), row)
    ELSE LET m == MatchCondition(row[filters[1][1]], filters[1][2])
         IN IF m = "T" THEN ConditionFuncSkipsAbsent(Tail(filters), row) ELSE m

\* A mutant of ConditionFunc: no special case for $exists, the mapping goes to
\* _match_condition like any other.
RECURSIVE ConditionFuncNoExists(_, _)
ConditionFuncNoExists(filters, row) ==
    IF filters = <<>> THEN "T"
    ELSE IF filters[1][1] \notin DOMAIN row THEN "F"
    ELSE LET m == MatchCondition(row[filters[1][1]], filters[1][2])
         IN IF m = "T" THEN ConditionFuncNoExists(Tail(filters), row) ELSE m

\* condition_func(row) of _build_condition_function(filters): the loop over
\* filters.items(), in dict order.  Every key, "$or" and "$and" included, is
\* looked up as a field of the row.
RECURSIVE ConditionFunc(_, _)
ConditionFunc(filters, row) ==
    IF filters = <<>> THEN "T"
    ELSE LET field == filters[1][1]
             condition == filters[1][2]
         IN IF condition[1] = "dict" /\ HasKey(condition[2], "$exists")
            THEN IF Get(condition[2], "$exists")[2] # (field \in DOMAIN row)
                 THEN "F"
                 ELSE ConditionFunc(Tail(filters), row)
            ELSE IF field \notin DOMAIN row THEN "F"
            ELSE LET m == MatchCondition(row[field], condition)
                 IN IF m = "T" THEN ConditionFunc(Tail(filters), row)
                    ELSE m

\* [r for r in rows if condition_func(r)]: the records kept, or the first exception.
RECURSIVE FilterRows(_, _)
FilterRows(rows, filters) ==
    IF rows = <<>> THEN [err |-> "none", rows |-> <<>>]
    ELSE LET c == ConditionFunc(filters, Head(rows))
         IN IF c \notin {"T", "F"} THEN [err |-> c, rows |-> <<>>]
            ELSE LET rest == FilterRows(Tail(rows), filters)
                 IN IF rest.err # "none" THEN rest
                    ELSE [err |-> "none",
                          rows |-> (IF c = "T" THEN <<Head(rows)>> ELSE <<>>) \o rest.rows]

(***************************************************************************)
(* The store: self._data.  Its "_meta" entry and its collections are kept  *)
(* apart: meta.k tells whether the "_meta" key holds the metadata dict     *)
(* ("dict"), a list (after an operation took "_meta" for a collection;     *)
(* its elements are in meta.items) or is missing ("absent"); meta.lm is    *)
(* last_modified, 0 while the key is not set; tbl maps every other key to  *)
(* its list of records.                                                    *)
(***************************************************************************)
Names == {"t1", "t2"}               \* collection names the callers use
TableArgs == Names \cup {"_meta"}   \* table_name arguments

\* table_name.startswith('_')
StartsWithUnderscore(name) == name \in {"_meta", "_x"}

\* datetime.now().isoformat(), for the clock reading t
IsoFormat(t) == <<"str", <<"T">> \o IntStr(t)>>

\* The clock readings datetime.now() can return next: time does not go back.
Now == {clock, Min(clock + 1, MaxTime)}

EmptyTbl == [n \in {} |-> <<>>]

\* {"_meta": {"tables": [], "created": now, "version": "1.0.0"}}
FreshMeta(t) == [k |-> "dict", tables |-> <<>>, created |-> t, lm |-> 0, items |-> <<>>]
FreshData(t) == [meta |-> FreshMeta(t), tbl |-> EmptyTbl]

AbsentMeta == [k |-> "absent", tables |-> <<>>, created |-> 0, lm |-> 0, items |-> <<>>]

\* The memory of a process that is not running.
InData(d, name) ==
    IF name = "_meta" THEN d.meta.k # "absent" ELSE name \in DOMAIN d.tbl

\* The exception of self._data["_meta"][...] when "_meta" is not the metadata dict.
MetaErr(d) == IF d.meta.k = "absent" THEN "KeyError" ELSE "TypeError"

\* self._data[table_name], for a key that holds a list
RowsAt(d, name) == IF name = "_meta" THEN d.meta.items ELSE d.tbl[name]

\* self._data[table_name] = rows
SetRows(d, name, rows) ==
    IF name = "_meta" THEN [d EXCEPT !.meta = [AbsentMeta EXCEPT !.k = "list", !.items = rows]]
    ELSE [d EXCEPT !.tbl = (name :> rows) @@ d.tbl]

\* del self._data[table_name]
DelKey(d, name) ==
    IF name = "_meta" THEN [d EXCEPT !.meta = AbsentMeta]
    ELSE [d EXCEPT !.tbl = [n \in (DOMAIN d.tbl) \ {name} |-> d.tbl[n]]]

\* Does self._data[table_name] hold a list (a collection) rather than the metadata dict?
IsListAt(d, name) == name # "_meta" \/ d.meta.k = "list"

\* len(self._data["_meta"]) for the metadata dict: tables, created, version
\* and, once a write has completed, last_modified
MetaLen(d) == IF d.meta.lm = 0 THEN 3 ELSE 4

\* The characters of a collection name.
NameChars(n) == CASE n = "t1" -> <<"t", "1">> [] n = "t2" -> <<"t", "2">>

\* sorted(names): insertion of x into an ascending list, after its equals (sorted is stable)
RECURSIVE SortedInsert(_, _)
SortedInsert(lst, x) ==
    IF lst = <<>> THEN <<x>>
    ELSE IF StrLess(NameChars(x), NameChars(Head(lst))) THEN <<x>> \o lst
    ELSE <<Head(lst)>> \o SortedInsert(Tail(lst), x)

RECURSIVE Sorted(_)
Sorted(lst) == IF lst = <<>> THEN <<>> ELSE SortedInsert(Sorted(SubSeq(lst, 1, Len(lst) - 1)), lst[Len(lst)])

\* lst.remove(x): the list without the first occurrence of x (x is in lst)
RECURSIVE ListRemove(_, _)
ListRemove(lst, x) ==
    IF Head(lst) = x THEN Tail(lst) ELSE <<Head(lst)>> \o ListRemove(Tail(lst), x)

InList(lst, x) == \E i \in 1..Len(lst) : lst[i] = x

(***************************************************************************)
(* Files.  json.dump writes the whole of self._data; json.load gives it    *)
(* back.  A file opened for writing and not yet fully written is Partial.  *)
(***************************************************************************)
NoFile == [k |-> "none"]
Partial == [k |-> "partial"]

\* json.dump(self._data, f)
Dump(d) == [k |-> "json", doc |-> d]

\* Is the file a complete JSON document?
Complete(f) == f.k = "json"

\* json.load(f) of a complete file
Load(f) == f.doc

\* json.loads(json.dumps(self._data)): the deep copy taken at transaction entry
DeepCopy(d) == Load(Dump(d))

(***************************************************************************)
(* Records and the arguments the callers pass.                             *)
(***************************************************************************)
Row1 == ("a" :> <<"int", 1>>)
WithInsertedAt(row, t) == ("_inserted_at" :> IsoFormat(t)) @@ row

\* updated = {**row, **updater}; updated["_updated_at"] = now
ApplyUpdater(row, updater, t) == ("_updated_at" :> IsoFormat(t)) @@ updater @@ row

Updater1 == ("c" :> <<"int", 9>>)

\* filters: {} ; {"c": 9}, which the updated records match; {"a": {"$bogus": 1}}
FilterArgs == {<<>>, << <<"c", <<"int", 9>>>> >>,
               << <<"a", <<"dict", << <<"$bogus", <<"int", 1>>>> >>>>>> >>}

DictArgs == {<<"dict", r>> : r \in {Row1}}
NotADict == <<"int", 5>>
\* rows arguments of insert_many: [], [Row1], [Row1, Row1], [Row1, 5], 5

Front(q) == SubSeq(q, 1, Len(q) - 1)
Last(q) == q[Len(q)]

\* No call is running and none has a result to hand over.
NoRet == [op |-> "none", arg |-> "", inp |-> <<>>, err |-> "none", val |-> 0]

\* The caller is between two calls.
Ready == pc = "idle" /\ ret = NoRet

\* The caller takes the result, or the exception, of the call that just ended.
Return ==
    /\ pc = "idle"
    /\ ret # NoRet
    /\ ret' = NoRet
    /\ legit' = {}
    /\ UNCHANGED <<pc, wctx, data, txn, lock, backupOn, clock, db, bak, tmp, entry, wOld, crashes, fails>>
    /\ UNCHANGED evalVars

(***************************************************************************)
(* How a call ends.                                                        *)
(***************************************************************************)
\* The call op(arg, inp) returns v (e = "none") or raises e without reaching
\* _write_db; it leaves d in self._data and read the clock as t.
FinishCall(op, arg, inp, e, v, d, t) ==
    /\ data' = d
    /\ clock' = t
    /\ ret' = [op |-> op, arg |-> arg, inp |-> inp, err |-> e, val |-> v]
    /\ UNCHANGED <<pc, wctx, txn, lock, backupOn, db, bak, tmp, entry, wOld, legit, crashes, fails>>
    /\ UNCHANGED evalVars

\* A call of one argument that returns None, or raises.
Finish(op, arg, e, d, t) == FinishCall(op, arg, <<>>, e, 0, d, t)

\* The call op(arg, inp) left d in self._data and enters _write_db, after
\* which it returns v; an operation holds the lock once itself and once more
\* inside _write_db.
WriteCall(ctx, op, arg, inp, v, d, t) ==
    /\ data' = d
    /\ clock' = t
    /\ pc' = "w_backup"
    /\ wctx' = ctx
    /\ wOld' = db
    /\ lock' = lock + (IF ctx = "op" THEN 2 ELSE 1)
    /\ ret' = [op |-> op, arg |-> arg, inp |-> inp, err |-> "running", val |-> v]
    /\ UNCHANGED <<txn, backupOn, db, bak, tmp, entry, legit, crashes, fails>>
    /\ UNCHANGED evalVars

(***************************************************************************)
(* The public mutations.  Each is one atomic step up to its call of        *)
(* _write_db (the caller is the only thread of Spec).                      *)
(***************************************************************************)
\* create_table(table_name)
CreateTable ==
    \E name \in TableArgs \cup {"_x"} :
        /\ Ready
        /\ IF InData(data, name)
           THEN Finish("create_table", name, "TableExistsError", data, clock)
           ELSE IF StartsWithUnderscore(name)
           THEN Finish("create_table", name, "QueryError", data, clock)
           ELSE LET d1 == SetRows(data, name, <<>>)
                IN /\ Cardinality(DOMAIN data.tbl) < MaxTables
                   /\ IF d1.meta.k # "dict"
                      THEN Finish("create_table", name, MetaErr(d1), d1, clock)
                      ELSE WriteCall("op", "create_table", name, <<>>, 0,
                               [d1 EXCEPT !.meta.tables = Sorted(Append(@, name))], clock)

\* drop_table(table_name)
DropTable ==
    \E name \in TableArgs :
        /\ Ready
        /\ IF ~InData(data, name)
           THEN Finish("drop_table", name,
                       IF data.meta.k # "dict" THEN MetaErr(data) ELSE "TableNotFoundError",
                       data, clock)
           ELSE LET d1 == DelKey(data, name)
                IN IF d1.meta.k # "dict"
                   THEN Finish("drop_table", name, MetaErr(d1), d1, clock)
                   ELSE IF ~InList(d1.meta.tables, name)
                   THEN Finish("drop_table", name, "ValueError", d1, clock)
                   ELSE WriteCall("op", "drop_table", name, <<>>, 0,
                            [d1 EXCEPT !.meta.tables = ListRemove(@, name)], clock)

\* A mutant of Insert: the new record goes to the front of the collection.
InsertAtFront ==
    \E name \in Names, row \in DictArgs \cup {NotADict}, t \in Now :
        /\ Ready
        /\ IF ~InData(data, name)
           THEN FinishCall("insert", name, row, "TableNotFoundError", 0, data, clock)
           ELSE IF row[1] # "dict"
           THEN FinishCall("insert", name, row, "QueryError", 0, data, clock)
           ELSE /\ Len(RowsAt(data, name)) < MaxRows
                /\ WriteCall("op", "insert", name, row, 0,
                       SetRows(data, name, <<WithInsertedAt(row[2], t)>> \o RowsAt(data, name)), t)

\* insert(table_name, row)
Insert ==
    \E name \in Names, row \in DictArgs \cup {NotADict}, t \in Now :
        /\ Ready
        /\ IF ~InData(data, name)
           THEN FinishCall("insert", name, row, "TableNotFoundError", 0, data, clock)
           ELSE IF row[1] # "dict"
           THEN FinishCall("insert", name, row, "QueryError", 0, data, clock)
           ELSE IF ~IsListAt(data, name)
           THEN FinishCall("insert", name, row, "AttributeError", 0, data, t)
           ELSE /\ Len(RowsAt(data, name)) < MaxRows
                /\ WriteCall("op", "insert", name, row, 0,
                       SetRows(data, name, Append(RowsAt(data, name), WithInsertedAt(row[2], t))), t)

\* insert_many(table_name, rows)
InsertMany ==
    \* rows arguments: [], [Row1], [Row1, Row1], [Row1, 5], 5
    \E name \in Names, t \in Now,
       rows \in {<<"list", <<>>>>, <<"list", <<<<"dict", Row1>>>>>>,
                 <<"list", <<<<"dict", Row1>>, <<"dict", Row1>>>>>>,
                 <<"list", <<<<"dict", Row1>>, NotADict>>>>, NotADict} :
        /\ Ready
        /\ IF ~InData(data, name)
           THEN FinishCall("insert_many", name, rows, "TableNotFoundError", 0, data, clock)
           ELSE IF rows[1] # "list"
           THEN FinishCall("insert_many", name, rows, "QueryError", 0, data, clock)
           ELSE IF \E i \in 1..Len(rows[2]) : rows[2][i][1] # "dict"
           THEN FinishCall("insert_many", name, rows, "TypeError", 0, data, t)
           ELSE IF ~IsListAt(data, name)
           THEN FinishCall("insert_many", name, rows, "AttributeError", 0, data, t)
           ELSE /\ Len(RowsAt(data, name)) + Len(rows[2]) <= MaxRows
                /\ WriteCall("op", "insert_many", name, rows, Len(rows[2]),
                       SetRows(data, name, RowsAt(data, name)
                            \o [i \in 1..Len(rows[2]) |-> WithInsertedAt(rows[2][i][2], t)]), t)

\* A mutant of UpdateLoop: the loop stops after the first record it replaced.
RECURSIVE UpdateFirstOnly(_, _, _, _)
UpdateFirstOnly(rows, filters, updater, t) ==
    IF rows = <<>> THEN [err |-> "none", rows |-> <<>>, count |-> 0]
    ELSE LET c == ConditionFunc(filters, Head(rows))
         IN IF c \notin {"T", "F"} THEN [err |-> c, rows |-> rows, count |-> 0]
            ELSE IF c = "T"
            THEN [err |-> "none", rows |-> <<ApplyUpdater(Head(rows), updater, t)>> \o Tail(rows),
                  count |-> 1]
            ELSE LET rest == UpdateFirstOnly(Tail(rows), filters, updater, t)
                 IN [err |-> rest.err, rows |-> <<Head(rows)>> \o rest.rows, count |-> rest.count]

\* The loop of update over enumerate(self._data[table_name]): every record is
\* tested and, when it matches, replaced at once; an exception leaves the
\* replacements already made.  One clock reading t serves the whole call.
RECURSIVE UpdateLoop(_, _, _, _)
UpdateLoop(rows, filters, updater, t) ==
    IF rows = <<>> THEN [err |-> "none", rows |-> <<>>, count |-> 0]
    ELSE LET c == ConditionFunc(filters, Head(rows))
         IN IF c \notin {"T", "F"} THEN [err |-> c, rows |-> rows, count |-> 0]
            ELSE LET rest == UpdateLoop(Tail(rows), filters, updater, t)
                     new == IF c = "T" THEN ApplyUpdater(Head(rows), updater, t) ELSE Head(rows)
                 IN [err |-> rest.err, rows |-> <<new>> \o rest.rows,
                     count |-> rest.count + (IF c = "T" THEN 1 ELSE 0)]

\* A mutant of Update: _write_db is called whatever the count.
UpdateAlwaysWrites ==
    \E name \in TableArgs, filters \in FilterArgs, t \in Now :
        /\ Ready
        /\ IF ~InData(data, name)
           THEN FinishCall("update", name, filters, "TableNotFoundError", 0, data, clock)
           ELSE IF ~IsListAt(data, name)
           THEN FinishCall("update", name, filters, "TypeError", 0, data, clock)
           ELSE LET u == UpdateLoop(RowsAt(data, name), filters, Updater1, t)
                    d1 == SetRows(data, name, u.rows)
                IN IF u.err # "none" THEN FinishCall("update", name, filters, u.err, 0, d1, t)
                   ELSE WriteCall("op", "update", name, filters, u.count, d1, t)

\* update(table_name, filters, updater) with a dict filter and the dict updater Updater1.
\* On the metadata dict the loop runs over its keys: the first key, "tables",
\* update_func raises TypeError on the first key under {}, and row[field] raises
\* it under a condition on "a" ("a" in "tables" holds) or on "c" ("c" in "created").
Update ==
    \E name \in TableArgs, filters \in FilterArgs, t \in Now :
        /\ Ready
        /\ IF ~InData(data, name)
           THEN FinishCall("update", name, filters, "TableNotFoundError", 0, data, clock)
           ELSE IF ~IsListAt(data, name)
           THEN FinishCall("update", name, filters, "TypeError", 0, data, clock)
           ELSE LET u == UpdateLoop(RowsAt(data, name), filters, Updater1, t)
                    d1 == SetRows(data, name, u.rows)
                IN IF u.err # "none" THEN FinishCall("update", name, filters, u.err, 0, d1, t)
                   ELSE IF u.count > 0 THEN WriteCall("op", "update", name, filters, u.count, d1, t)
                   ELSE FinishCall("update", name, filters, "none", 0, data, clock)

\* A mutant of DeleteRows: only the first record that satisfies the filter goes.
DeleteFirstOnly(rows, filters) ==
    LET m == FilterRows(rows, filters)
        hits == {i \in 1..Len(rows) : ConditionFunc(filters, rows[i]) = "T"}
    IN IF m.err # "none" THEN m
       ELSE IF hits = {} THEN [err |-> "none", rows |-> rows]
       ELSE LET first == CHOOSE i \in hits : \A j \in hits : i <= j
            IN [err |-> "none",
                rows |-> SubSeq(rows, 1, first - 1) \o SubSeq(rows, first + 1, Len(rows))]

\* [r for r in rows if not condition_func(r)]
DeleteRows(rows, filters) ==
    LET m == FilterRows(rows, filters)
    IN IF m.err # "none" THEN m
       ELSE [err |-> "none",
             rows |-> SelectSeq(rows, LAMBDA r : ConditionFunc(filters, r) = "F")]

\* delete(table_name, filters) with a dict filter.  On the metadata dict the
\* comprehension runs over its keys: {} matches them all, a condition on
\* field "a" or "c" raises TypeError at row[field] ("tables", "created").
Delete ==
    \E name \in TableArgs, filters \in FilterArgs :
        /\ Ready
        /\ IF ~InData(data, name)
           THEN FinishCall("delete", name, filters, "TableNotFoundError", 0, data, clock)
           ELSE IF ~IsListAt(data, name)
           THEN IF filters = <<>>
                THEN WriteCall("op", "delete", name, filters, MetaLen(data),
                                   SetRows(data, name, <<>>), clock)
                ELSE FinishCall("delete", name, filters, "TypeError", 0, data, clock)
           ELSE LET r == DeleteRows(RowsAt(data, name), filters)
                IN IF r.err # "none" THEN FinishCall("delete", name, filters, r.err, 0, data, clock)
                   ELSE IF Len(RowsAt(data, name)) - Len(r.rows) > 0
                   THEN WriteCall("op", "delete", name, filters, Len(RowsAt(data, name)) - Len(r.rows),
                                      SetRows(data, name, r.rows), clock)
                   ELSE FinishCall("delete", name, filters, "none", 0, SetRows(data, name, r.rows), clock)

\* clear_table(table_name)
ClearTable ==
    \E name \in TableArgs :
        /\ Ready
        /\ IF ~InData(data, name)
           THEN Finish("clear_table", name, "TableNotFoundError", data, clock)
           ELSE WriteCall("op", "clear_table", name, <<>>,
                    IF IsListAt(data, name) THEN Len(RowsAt(data, name)) ELSE MetaLen(data),
                    SetRows(data, name, <<>>), clock)

\* What select(table_name, filters) raises and returns, with a dict filter and every
\* other argument at its default.  On the metadata dict the rows are its keys:
\* row.copy() raises AttributeError, row[field] TypeError.
SelectResult(name, filters) ==
    IF ~InData(data, name)
    THEN [err |-> IF data.meta.k # "dict" THEN MetaErr(data) ELSE "TableNotFoundError",
          rows |-> <<>>]
    ELSE IF ~IsListAt(data, name)
    THEN [err |-> IF filters = <<>> THEN "AttributeError" ELSE "TypeError", rows |-> <<>>]
    ELSE FilterRows(RowsAt(data, name), filters)

\* A mutant of Select: the filtered rows are stored back as the collection.
SelectInPlace ==
    \E name \in TableArgs, filters \in FilterArgs :
        /\ Ready
        /\ FinishCall("select", name, <<filters, SelectResult(name, filters).rows>>,
                      SelectResult(name, filters).err, 0,
                      IF IsListAt(data, name)
                      THEN SetRows(data, name, SelectResult(name, filters).rows) ELSE data,
                      clock)

\* select(table_name, filters); ret.inp keeps the filter and the rows returned
Select ==
    \E name \in TableArgs, filters \in FilterArgs :
        /\ Ready
        /\ FinishCall("select", name, <<filters, SelectResult(name, filters).rows>>,
                      SelectResult(name, filters).err, 0, data, clock)

\* count(table_name, filters): return len(self.select(table_name, filters))
Count ==
    \E name \in TableArgs, filters \in FilterArgs :
        /\ Ready
        /\ FinishCall("count", name, <<filters, SelectResult(name, filters).rows>>,
                      SelectResult(name, filters).err,
                      Len(SelectResult(name, filters).rows), data, clock)

\* stats(table_name).  On the metadata dict row.keys() raises AttributeError.
Stats ==
    \E name \in TableArgs :
        /\ Ready
        /\ IF ~InData(data, name)
           THEN Finish("stats", name, "TableNotFoundError", data, clock)
           ELSE IF ~IsListAt(data, name)
           THEN Finish("stats", name, "AttributeError", data, clock)
           ELSE Finish("stats", name, "none", data, clock)

(***************************************************************************)
(* transaction(): the caller enters the context manager, runs the body as  *)
(* further calls, and leaves it normally or by an exception.               *)
(***************************************************************************)
\* A mutant of TxnEnterNested: the nested transaction keeps no snapshot of its own
\* and takes the one of the enclosing transaction.
TxnEnterNestedShared ==
    /\ Ready
    /\ txn # <<>> /\ Len(txn) < MaxNest
    /\ txn' = Append(txn, Last(txn))
    /\ entry' = Append(entry, [mem |-> data,
                                sync |-> Complete(db) /\ Load(db).tbl = data.tbl])
    /\ lock' = lock + 1
    /\ UNCHANGED <<pc, wctx, data, backupOn, clock, db, bak, tmp, ret, wOld, legit, crashes, fails>>
    /\ UNCHANGED evalVars

\* with self._lock: backup_data = json.loads(json.dumps(self._data)); yield
TxnEnter ==
    /\ Ready
    /\ Len(txn) < MaxDepth
    /\ txn' = Append(txn, DeepCopy(data))
    /\ entry' = Append(entry, [mem |-> data,
                                sync |-> Complete(db) /\ Load(db).tbl = data.tbl])
    /\ lock' = lock + 1
    /\ UNCHANGED <<pc, wctx, data, backupOn, clock, db, bak, tmp, ret, wOld, legit, crashes, fails>>
    /\ UNCHANGED evalVars

\* the same inside the body of a transaction: the lock is re-entered, the snapshot is
\* taken of the store as the enclosing body left it
TxnEnterNested ==
    /\ Ready
    /\ txn # <<>> /\ Len(txn) < MaxNest
    /\ txn' = Append(txn, DeepCopy(data))
    /\ entry' = Append(entry, [mem |-> data,
                                sync |-> Complete(db) /\ Load(db).tbl = data.tbl])
    /\ lock' = lock + 1
    /\ UNCHANGED <<pc, wctx, data, backupOn, clock, db, bak, tmp, ret, wOld, legit, crashes, fails>>
    /\ UNCHANGED evalVars

\* The body ended without an exception: self._write_db()
TxnCommit ==
    /\ Ready
    /\ txn # <<>>
    /\ WriteCall("commit", "transaction", "exit", <<>>, 0, data, clock)

\* The exception that leaves the body now: one the body raises itself between
\* two calls, or the one a call of the body has just raised.
BodyErrors == IF ret = NoRet THEN {"BodyError"} ELSE {ret.err} \ {"none"}

\* A mutant of TxnRaise: the except clause re-raises without restoring the snapshot.
TxnRaiseNoRestore ==
    \E e \in BodyErrors :
        /\ pc = "idle"
        /\ txn # <<>>
        /\ txn' = Front(txn)
        /\ entry' = Front(entry)
        /\ lock' = lock - 1
        /\ ret' = [op |-> "transaction", arg |-> "body", inp |-> <<>>, err |-> e, val |-> 0]
        /\ UNCHANGED <<pc, wctx, data, backupOn, clock, db, bak, tmp, wOld, legit, crashes, fails>>
        /\ UNCHANGED evalVars

\* A mutant of TxnRaise: the exception leaves the block without releasing the lock.
TxnRaiseKeepsLock ==
    \E e \in BodyErrors :
        /\ pc = "idle"
        /\ txn # <<>>
        /\ data' = Last(txn)
        /\ txn' = Front(txn)
        /\ entry' = Front(entry)
        /\ ret' = [op |-> "transaction", arg |-> "body", inp |-> <<>>, err |-> e, val |-> 0]
        /\ UNCHANGED <<pc, wctx, lock, backupOn, clock, db, bak, tmp, wOld, legit, crashes, fails>>
        /\ UNCHANGED evalVars

\* except Exception: self._data = backup_data; raise
\* (ret.arg tells the two ways out of the block apart: "body" when the body
\* raised, "exit" when it ended and the block ran self._write_db())
TxnRaise ==
    \E e \in BodyErrors :
        /\ pc = "idle"
        /\ txn # <<>>
        /\ data' = Last(txn)
        /\ txn' = Front(txn)
        /\ entry' = Front(entry)
        /\ lock' = lock - 1
        /\ ret' = [op |-> "transaction", arg |-> "body", inp |-> <<>>, err |-> e, val |-> 0]
        /\ UNCHANGED <<pc, wctx, backupOn, clock, db, bak, tmp, wOld, legit, crashes, fails>>
        /\ UNCHANGED evalVars

(***************************************************************************)
(* _write_db, one action per file-system step.                             *)
(***************************************************************************)
WriteSteps == {"w_backup", "w_open", "w_dump", "w_replace"}

\* A mutant of WBackup: a backup file that exists is kept.
WBackupKeepsFirst ==
    /\ pc = "w_backup"
    /\ IF backupOn /\ db # NoFile /\ bak = NoFile
       THEN bak' = db /\ db' = NoFile
       ELSE UNCHANGED <<bak, db>>
    /\ pc' = "w_open"
    /\ UNCHANGED <<wctx, data, txn, lock, backupOn, clock, tmp, ret, entry, wOld, legit, crashes,
                   fails>>
    /\ UNCHANGED evalVars

\* if self.backup and self.db_path.exists(): self.db_path.replace(backup_path)
WBackup ==
    /\ pc = "w_backup"
    /\ IF backupOn /\ db # NoFile
       THEN bak' = db /\ db' = NoFile
       ELSE UNCHANGED <<bak, db>>
    /\ pc' = "w_open"
    /\ UNCHANGED <<wctx, data, txn, lock, backupOn, clock, tmp, ret, entry, wOld, legit, crashes, fails>>
    /\ UNCHANGED evalVars

\* open(tmp_path, "w"): the temporary file is created, or truncated, empty
WOpen ==
    /\ pc = "w_open"
    /\ tmp' = Partial
    /\ pc' = "w_dump"
    /\ UNCHANGED <<wctx, data, txn, lock, backupOn, clock, db, bak, ret, entry, wOld, legit, crashes, fails>>
    /\ UNCHANGED evalVars

\* json.dump(self._data, f, ...) and the close of the file
WDump ==
    /\ pc = "w_dump"
    /\ tmp' = Dump(data)
    /\ pc' = "w_replace"
    /\ UNCHANGED <<wctx, data, txn, lock, backupOn, clock, db, bak, ret, entry, wOld, legit, crashes, fails>>
    /\ UNCHANGED evalVars

\* tmp_path.replace(self.db_path); self._data["_meta"]["last_modified"] = now;
\* then the return to the caller of _write_db: the operation returns,
\* the transaction commits, or __init__ ends.  When "_meta" is not the
\* metadata dict the assignment raises (not an IOError, so it propagates as
\* it is): the operation raises it, the transaction rolls back and re-raises.
WReplace ==
    \E t \in Now :
        /\ pc = "w_replace"
        /\ db' = tmp
        /\ tmp' = NoFile
        /\ clock' = t
        /\ pc' = "idle"
        /\ wctx' = "none"
        /\ wOld' = NoFile
        /\ lock' = lock - (IF wctx = "init" THEN 1 ELSE 2)
        /\ ret' = IF data.meta.k = "dict" THEN [ret EXCEPT !.err = "none"]
                   ELSE [ret EXCEPT !.err = MetaErr(data), !.val = 0]
        /\ IF data.meta.k = "dict"
           THEN data' = [data EXCEPT !.meta.lm = t]
           ELSE IF wctx = "commit" THEN data' = Last(txn) ELSE data' = data
        /\ IF wctx = "commit"
           THEN txn' = Front(txn) /\ entry' = Front(entry)
           ELSE UNCHANGED <<txn, entry>>
        /\ UNCHANGED <<backupOn, bak, legit, crashes, fails>>
        /\ UNCHANGED evalVars

\* except IOError as e: raise CafeDBError(...): the rename to the backup
\* path, the open of the temporary file, the write into it or the rename over
\* the database path fails.  Nothing is undone: the files stay as the steps
\* before the failure left them, self._data keeps what the operation did.
\* (Here for the _write_db of an operation, outside a transaction.)
WFail ==
    /\ pc \in WriteSteps
    /\ wctx = "op"
    /\ fails < MaxFails
    /\ fails' = fails + 1
    /\ pc' = "idle"
    /\ wctx' = "none"
    /\ wOld' = NoFile
    /\ lock' = lock - 2
    /\ ret' = [ret EXCEPT !.err = "CafeDBError", !.val = 0]
    /\ UNCHANGED <<data, txn, backupOn, clock, db, bak, tmp, entry, legit, crashes>>
    /\ UNCHANGED evalVars

(***************************************************************************)
(* The process can die at any point and the application then opens the     *)
(* store again on the same path.                                           *)
(***************************************************************************)
\* The collections a reopen may load after a crash now: those of the last
\* completed write and, within a write, those being written.
LegitNow ==
    IF pc \in WriteSteps
    THEN IF wctx = "init" THEN legit
         ELSE {data.tbl} \cup (IF Complete(wOld) THEN {Load(wOld).tbl} ELSE {})
    ELSE IF Complete(db) THEN {Load(db).tbl} ELSE {}

Crash ==
    /\ pc \in WriteSteps \/ Ready
    /\ crashes < MaxCrashes
    /\ crashes' = crashes + 1
    /\ pc' = "dead"
    /\ wctx' = "none"
    /\ data' = [meta |-> AbsentMeta, tbl |-> EmptyTbl]
    /\ txn' = <<>>
    /\ entry' = <<>>
    /\ lock' = 0
    /\ wOld' = NoFile
    /\ legit' = LegitNow
    /\ ret' = NoRet
    /\ UNCHANGED <<backupOn, clock, db, bak, tmp, fails>>
    /\ UNCHANGED evalVars

\* What __init__ puts in self._data when the file f exists: the document read
\* and, if it has no "_meta" key, a new metadata dict created at t.
OpenLoad(f, t) ==
    IF Load(f).meta.k = "absent" THEN [Load(f) EXCEPT !.meta = FreshMeta(t)] ELSE Load(f)

\* A mutant of Open: no initial write on a path without a file.
OpenWithoutWrite ==
    \E t \in Now :
        /\ pc = "dead"
        /\ db = NoFile \/ Complete(db)
        /\ data' = IF db = NoFile THEN FreshData(t) ELSE OpenLoad(db, t)
        /\ clock' = t
        /\ pc' = "idle"
        /\ ret' = [op |-> "open", arg |-> "", inp |-> <<>>, err |-> "none", val |-> 0]
        /\ UNCHANGED <<wctx, txn, lock, backupOn, db, bak, tmp, entry, wOld, legit, crashes, fails>>
        /\ UNCHANGED evalVars

\* CafeDB(db_path, backup=backupOn): __init__
Open ==
    \E t \in Now :
        /\ pc = "dead"
        /\ IF db # NoFile
           THEN IF ~Complete(db)
                THEN /\ ret' = [op |-> "open", arg |-> "", inp |-> <<>>, err |-> "CafeDBError", val |-> 0]
                     /\ UNCHANGED <<pc, wctx, data, txn, lock, backupOn, clock, db, bak, tmp,
                                    entry, wOld, legit, crashes, fails>>
                ELSE /\ data' = OpenLoad(db, t)
                     /\ clock' = IF Load(db).meta.k = "absent" THEN t ELSE clock
                     /\ pc' = "idle"
                     /\ ret' = [op |-> "open", arg |-> "", inp |-> <<>>, err |-> "none", val |-> 0]
                     /\ UNCHANGED <<wctx, txn, lock, backupOn, db, bak, tmp, entry, wOld, legit, crashes, fails>>
           ELSE /\ data' = FreshData(t)
                /\ clock' = t
                /\ pc' = "w_backup"
                /\ wctx' = "init"
                /\ wOld' = db
                /\ lock' = lock + 1
                /\ ret' = [op |-> "open", arg |-> "", inp |-> <<>>, err |-> "running", val |-> 0]
                /\ UNCHANGED <<txn, backupOn, db, bak, tmp, entry, legit, crashes, fails>>
        /\ UNCHANGED evalVars

(***************************************************************************)
(* Spec: one caller thread on a store just created on a path with no file. *)
(* The store is created at the last clock reading of the bound, so every   *)
(* timestamp of Spec and SpecTxn is that reading.                          *)
(***************************************************************************)
NoWild == [how |-> "none", res |-> "none"]
NoSel == [op |-> "none", err |-> "none", rows |-> <<>>]
WildIdle == wVal = <<"int", 0>> /\ wPat = <<>> /\ wRes = NoWild
FilterIdle == fRows = <<>> /\ fFilter = <<>> /\ fRes = NoSel
\* select's defaults: order_by=None, reverse=False, offset=0, limit=None
NoLimit == <<"none", 0>>
\* The second thread between two calls, holding nothing and having read nothing.
NoOther == [pc |-> "idle", hold |-> 0, call |-> "none", arg |-> "", val |-> <<"none">>,
            in |-> FALSE, base |-> <<>>]

PageIdle == pArgs = [order_by |-> "", reverse |-> FALSE, offset |-> 0, limit |-> NoLimit]

\* The state after CafeDB(path) at clock reading t on a path with no file.
StoreAt(t) ==
    /\ pc = "idle"
    /\ wctx = "none"
    /\ data = [FreshData(t) EXCEPT !.meta.lm = t]
    /\ txn = <<>>
    /\ lock = 0
    /\ backupOn \in BOOLEAN
    /\ clock = t
    /\ db = Dump(FreshData(t))
    /\ bak = NoFile
    /\ tmp = NoFile
    /\ ret = NoRet
    /\ entry = <<>>
    /\ wOld = NoFile
    /\ legit = {}
    /\ crashes = 0
    /\ fails = 0

StoreInit == StoreAt(MaxTime)

Init ==
    /\ StoreInit /\ WildIdle /\ FilterIdle /\ PageIdle /\ heap = <<>> /\ held = <<>> /\ got = <<>>
    /\ other = NoOther

Next ==
    \/ CreateTable \/ DropTable \/ Insert \/ InsertMany \/ Update \/ Delete \/ ClearTable
    \/ Select \/ Count \/ Stats
    \/ WBackup \/ WOpen \/ WDump \/ WReplace
    \/ Return
    \/ Crash \/ Open

Spec == Init /\ [][Next]_vars

(***************************************************************************)
(* SpecTxn: the same caller, who also opens transactions, on a store       *)
(* opened with backup=False; no crash.                                     *)
(***************************************************************************)
InitTxn == Init /\ backupOn = FALSE

NextTxn ==
    \/ CreateTable \/ DropTable \/ Insert \/ InsertMany \/ Update \/ Delete \/ ClearTable
    \/ Select \/ Stats
    \/ WBackup \/ WOpen \/ WDump \/ WReplace
    \/ Return
    \/ TxnEnter \/ TxnCommit \/ TxnRaise

SpecTxn == InitTxn /\ [][NextTxn]_vars

(***************************************************************************)
(* SpecNest: the caller opens transactions inside transactions, on a store *)
(* opened with backup=False.                                               *)
(***************************************************************************)
NextNest ==
    \/ CreateTable \/ Insert \/ Delete
    \/ WBackup \/ WOpen \/ WDump \/ WReplace
    \/ Return
    \/ TxnEnter \/ TxnEnterNested \/ TxnCommit \/ TxnRaise

SpecNest == InitTxn /\ [][NextNest]_vars

(***************************************************************************)
(* SpecTrip: the caller on a store created at the first clock reading,     *)
(* with backup=False; the clock advances.                                  *)
(***************************************************************************)
InitTrip ==
    /\ StoreAt(1) /\ backupOn = FALSE
    /\ WildIdle /\ FilterIdle /\ PageIdle /\ heap = <<>> /\ held = <<>> /\ got = <<>>
    /\ other = NoOther

NextTrip ==
    \/ CreateTable \/ Insert \/ InsertMany \/ Update \/ ClearTable
    \/ WBackup \/ WOpen \/ WDump \/ WReplace
    \/ Return

SpecTrip == InitTrip /\ [][NextTrip]_vars

(***************************************************************************)
(* SpecWild: _match_wildcard reached through _match_condition, as a        *)
(* literal condition and as the operand of $like, on every value and       *)
(* pattern of the bounded sets.                                            *)
(***************************************************************************)
\* All sequences over S of length at most n.
RECURSIVE SeqsUpTo(_, _)
SeqsUpTo(S, n) ==
    IF n = 0 THEN {<<>>}
    ELSE LET shorter == SeqsUpTo(S, n - 1)
         IN shorter \cup {Append(q, x) : q \in shorter, x \in S}

InitWild ==
    /\ StoreInit /\ backupOn = FALSE
    /\ FilterIdle /\ PageIdle /\ heap = <<>> /\ held = <<>> /\ got = <<>>
    /\ other = NoOther
    /\ wVal \in {<<"str", v>> : v \in SeqsUpTo({"a", "b", "1", "."}, MaxStrLen)}
               \cup {<<"int", 1>>, <<"int", 12>>}
    /\ wPat \in {p \in SeqsUpTo({"a", "A", "1", ".", "*", "?"}, MaxPatLen) :
                    HasChar(p, "*") \/ HasChar(p, "?")}
    /\ wRes = NoWild

\* _match_condition(value, pattern): the literal branch (lines 198-203)
WildLiteral ==
    /\ wRes = NoWild
    /\ wRes' = [how |-> "literal", res |-> MatchCondition(wVal, <<"str", wPat>>)]
    /\ UNCHANGED <<storeVars, filterVars, queryVars, wVal, wPat>>

\* _match_condition(value, {"$like": pattern})
WildLike ==
    /\ wRes = NoWild
    /\ wRes' = [how |-> "$like",
                res |-> MatchCondition(wVal, <<"dict", << <<"$like", <<"str", wPat>>>> >>>>)]
    /\ UNCHANGED <<storeVars, filterVars, queryVars, wVal, wPat>>

NextWild == WildLiteral \/ WildLike

SpecWild == InitWild /\ [][NextWild]_vars

(***************************************************************************)
(* SpecFilter: select, update and delete on one collection, for every      *)
(* collection and dict filter of the bounded sets.                         *)
(***************************************************************************)
MaxSel == 2         \* records of the collection queried

I1 == <<"int", 1>>
I2 == <<"int", 2>>
SA == <<"str", <<"a">>>>

\* records: {}, {"a": 1}, {"a": 2}, {"a": "a"}, {"a": 1, "b": 1}
OpPairs ==
    {<<"$eq", I1>>, <<"$ne", I1>>, <<"$gt", I1>>, <<"$gte", I1>>, <<"$lt", I2>>, <<"$lte", I1>>,
     <<"$in", <<"list", <<I1>>>>>>, <<"$nin", <<"list", <<I1>>>>>>, <<"$in", SA>>,
     <<"$like", <<"str", <<"a", "*">>>>>>,
     <<"$regex", SA>>, <<"$regex", <<"str", <<"*">>>>>>,
     <<"$contains", SA>>, <<"$startswith", SA>>, <<"$endswith", SA>>,
     <<"$between", <<"list", <<I1, I2>>>>>>, <<"$between", <<"list", <<I1>>>>>>,
     <<"$exists", <<"bool", TRUE>>>>, <<"$exists", <<"bool", FALSE>>>>,
     <<"$bogus", I1>>}

\* conditions: a literal, a wildcard, a mapping of one operator or of two
Conditions ==
    {I1, SA, <<"str", <<"a", "*">>>>}
    \cup {<<"dict", <<p>>>> : p \in OpPairs}
    \cup {<<"dict", <<pq[1], pq[2]>>>> : pq \in {x \in OpPairs \X OpPairs : x[1][1] # x[2][1]}}

\* the filters nested under $or and $and: {"a": 1}, {"a": 2}, {"b": 1}
NestedFilters == {<< <<"a", I1>> >>, << <<"a", I2>> >>, << <<"b", I1>> >>}

FilterInputs ==
    {<< <<"a", c>> >> : c \in Conditions}
    \cup {<< <<"a", c>>, <<"b", d>> >> : c \in {I1, <<"dict", <<<<"$bogus", I1>>>>>>},
                                         d \in {I1, <<"dict", <<<<"$bogus", I1>>>>>>}}
    \cup {<< <<k, <<"list", fs>>>> >> : k \in {"$or", "$and"}, fs \in SeqsUpTo(NestedFilters, 2)}

InitFilter ==
    /\ StoreInit /\ backupOn = FALSE
    /\ WildIdle /\ PageIdle /\ heap = <<>> /\ held = <<>> /\ got = <<>>
    /\ other = NoOther
    /\ fRows \in SeqsUpTo({EmptyTbl, "a" :> I1, "a" :> I2, "a" :> SA, ("a" :> I1) @@ ("b" :> I1)}, MaxSel)
    /\ fFilter \in FilterInputs
    /\ fRes = NoSel

\* select(collection, fFilter): the body of select from "rows = self._data[table_name]"
\* on, with a dict filter and every other argument at its default (no sort, no offset,
\* no limit, no projection, a copy of every record kept)
FSelect ==
    /\ fRes = NoSel
    /\ fRes' = [op |-> "select", err |-> FilterRows(fRows, fFilter).err,
                rows |-> FilterRows(fRows, fFilter).rows]
    /\ UNCHANGED <<storeVars, wildVars, queryVars, fRows, fFilter>>

\* update(collection, fFilter, Updater1): the exception and the collection afterwards
FUpdate ==
    /\ fRes = NoSel
    /\ LET u == UpdateLoop(fRows, fFilter, Updater1, 1)
       IN fRes' = [op |-> "update", err |-> u.err, rows |-> u.rows]
    /\ UNCHANGED <<storeVars, wildVars, queryVars, fRows, fFilter>>

\* delete(collection, fFilter): the exception and the collection afterwards
FDelete ==
    /\ fRes = NoSel
    /\ LET r == DeleteRows(fRows, fFilter)
       IN fRes' = [op |-> "delete", err |-> r.err,
                   rows |-> IF r.err = "none" THEN r.rows ELSE fRows]
    /\ UNCHANGED <<storeVars, wildVars, queryVars, fRows, fFilter>>

NextFilter == FSelect \/ FUpdate \/ FDelete

SpecFilter == InitFilter /\ [][NextFilter]_vars

(***************************************************************************)
(* SpecOps: insert, insert_many, update and delete, with writes that can   *)
(* fail, on a store that holds two collections.  The store and its file    *)
(* were last written at the last clock reading of the bound; with backup   *)
(* enabled the backup file is the version before "t2" received its         *)
(* records.                                                                *)
(***************************************************************************)
\* records as insert and update leave them:
\* {"a": 1, "_inserted_at": now} and
\* {"a": 1, "_inserted_at": now, "c": 9, "_updated_at": now}
OpsRowSet == {WithInsertedAt(Row1, MaxTime),
              ApplyUpdater(WithInsertedAt(Row1, MaxTime), Updater1, MaxTime)}

OpsData(r1, r2) ==
    [meta |-> [k |-> "dict", tables |-> <<"t1", "t2">>, created |-> MaxTime, lm |-> MaxTime,
               items |-> <<>>],
     tbl |-> ("t1" :> r1) @@ ("t2" :> r2)]

InitOps ==
    /\ pc = "idle"
    /\ wctx = "none"
    /\ \E r1 \in SeqsUpTo(OpsRowSet, MaxRows), r2 \in SeqsUpTo(OpsRowSet, MaxRows) :
            /\ data = OpsData(r1, r2)
            /\ db = Dump(OpsData(r1, r2))
            /\ backupOn \in BOOLEAN
            /\ bak = IF backupOn THEN Dump(OpsData(r1, <<>>)) ELSE NoFile
    /\ txn = <<>>
    /\ lock = 0
    /\ clock = MaxTime
    /\ tmp = NoFile
    /\ ret = NoRet
    /\ entry = <<>>
    /\ wOld = NoFile
    /\ legit = {}
    /\ crashes = 0
    /\ fails = 0
    /\ WildIdle /\ FilterIdle /\ PageIdle /\ heap = <<>> /\ held = <<>> /\ got = <<>>
    /\ other = NoOther

NextOps ==
    \/ Insert \/ InsertMany \/ Update \/ Delete
    \/ WBackup \/ WOpen \/ WDump \/ WReplace \/ WFail
    \/ Return

SpecOps == InitOps /\ [][NextOps]_vars

(***************************************************************************)
(* SpecPage: select with order_by, reverse, offset and limit over one      *)
(* collection, on every collection and every argument of the bounded sets. *)
(***************************************************************************)
MaxPage == 4
MaxOff == 2

SortValue(row, order_by) == IF order_by \in DOMAIN row THEN row[order_by] ELSE <<"str", <<>>>>

\* sorted() compares the keys with <, which raises TypeError between an int and a str: the
\* first sorted() goes through when the keys are of one type (or there is at most one row),
\* and the except branch sorts by str(key) otherwise.
SortMode(rows, order_by) ==
    IF \A i, j \in 1..Len(rows) :
          SortValue(rows[i], order_by)[1] = SortValue(rows[j], order_by)[1]
    THEN "native" ELSE "str"

\* the key a row is sorted by
SortKey(row, order_by, mode) ==
    IF mode = "str" THEN <<"str", PyStr(SortValue(row, order_by))>> ELSE SortValue(row, order_by)

\* A mutant of Before: reverse is ignored.
BeforeAscending(x, y, order_by, mode, reverse) ==
    PyLess(SortKey(x, order_by, mode), SortKey(y, order_by, mode)) = "T"

\* row x goes before row y: key(x) < key(y), the other way round with reverse=True
Before(x, y, order_by, mode, reverse) ==
    IF reverse THEN PyLess(SortKey(y, order_by, mode), SortKey(x, order_by, mode)) = "T"
    ELSE PyLess(SortKey(x, order_by, mode), SortKey(y, order_by, mode)) = "T"

\* sorted() is stable, with reverse=True as well: x goes after the rows it does not go before
RECURSIVE SortInsert(_, _, _, _, _)
SortInsert(lst, x, order_by, mode, reverse) ==
    IF lst = <<>> THEN <<x>>
    ELSE IF Before(x, Last(lst), order_by, mode, reverse)
         THEN Append(SortInsert(Front(lst), x, order_by, mode, reverse), Last(lst))
         ELSE Append(lst, x)

RECURSIVE SortRows(_, _, _, _)
SortRows(rows, order_by, mode, reverse) ==
    IF rows = <<>> THEN <<>>
    ELSE SortInsert(SortRows(Front(rows), order_by, mode, reverse), Last(rows),
                    order_by, mode, reverse)

\* rows[offset:] if offset > 0
Skip(rows, offset) == IF offset > 0 THEN SubSeq(rows, offset + 1, Len(rows)) ELSE rows

\* rows[:limit] if limit is not None, for a limit >= 0
Take(rows, limit) == IF limit = NoLimit THEN rows ELSE SubSeq(rows, 1, Min(limit[2], Len(rows)))

\* rows[:limit] and then rows[offset:]
PaginateLimitFirst(rows, offset, limit) == Skip(Take(rows, limit), offset)

\* rows[offset:] and then rows[:limit]
Paginate(rows, offset, limit) == Take(Skip(rows, offset), limit)

\* select(collection, filters, limit=, offset=, order_by=, reverse=): filter, sort, paginate
SelectPage(rows, filters, args) ==
    LET f == FilterRows(rows, filters)
        s == IF args.order_by # ""
             THEN SortRows(f.rows, args.order_by, SortMode(f.rows, args.order_by), args.reverse)
             ELSE f.rows
    IN IF f.err # "none" THEN f
       ELSE [err |-> "none", rows |-> Paginate(s, args.offset, args.limit)]

InitPage ==
    /\ StoreInit
    /\ WildIdle /\ heap = <<>> /\ held = <<>> /\ got = <<>>
    /\ other = NoOther
    /\ fRows \in SeqsUpTo({EmptyTbl, "a" :> I1, "a" :> I2, "a" :> <<"int", 10>>,
                          "a" :> <<"str", <<"1">>>>}, MaxPage)
    /\ fFilter \in {<<>>, << <<"a", <<"dict", << <<"$exists", <<"bool", TRUE>>>> >>>>>> >>}
    /\ pArgs \in [order_by : {"", "a"}, reverse : BOOLEAN, offset : 0..MaxOff,
                 limit : {NoLimit} \cup {<<"int", n>> : n \in 0..MaxOff}]
    /\ fRes = NoSel

\* select(collection, fFilter, limit=, offset=, order_by=, reverse=)
PSelect ==
    /\ fRes = NoSel
    /\ fRes' = [op |-> "select", err |-> SelectPage(fRows, fFilter, pArgs).err,
                rows |-> SelectPage(fRows, fFilter, pArgs).rows]
    /\ UNCHANGED <<storeVars, wildVars, queryVars, fRows, fFilter>>

NextPage == PSelect

SpecPage == InitPage /\ [][NextPage]_vars

(***************************************************************************)
(* SpecCopy: the objects behind select's result.  A record is a dict       *)
(* object whose values are scalars or references to list objects; select   *)
(* without a projection returns row.copy() of every record, and the caller *)
(* then changes what it was given.                                         *)
(***************************************************************************)
MaxHeld == 2
MaxItems == 2

DictObj(fields) == [kind |-> "dict", fields |-> fields, items |-> <<>>]
ListObj(items) == [kind |-> "list", fields |-> EmptyTbl, items |-> items]
IsRef(v) == v[1] = "ref"

\* the records a collection holds: {"n": 1}, {"n": 2}, and each with "tags": [] or "tags": [1]
\* the objects of one record at identities 2i-1 (the dict) and 2i (its list, if it has one)
RECURSIVE HeapOf(_)
HeapOf(shapes) ==
    IF shapes = <<>> THEN <<>>
    ELSE LET s == Last(shapes)
             i == Len(shapes)
         IN HeapOf(Front(shapes))
            \o (IF s.tags[1] = "none"
                THEN <<DictObj("n" :> s.n), ListObj(<<>>)>>
                ELSE <<DictObj(("n" :> s.n) @@ ("tags" :> <<"ref", 2 * i>>)), ListObj(s.tags[2])>>)

InitCopy ==
    /\ StoreInit
    /\ WildIdle /\ FilterIdle /\ PageIdle
    /\ \E shapes \in SeqsUpTo({[n |-> v, tags |-> t] : v \in {I1, I2},
                                 t \in {<<"none">>, <<"list", <<>>>>, <<"list", <<I1>>>>}}, MaxHeld) :
          /\ heap = HeapOf(shapes)
          /\ held = [i \in 1..Len(shapes) |-> 2 * i - 1]
    /\ got = <<>>
    /\ other = NoOther

\* select(collection): rows = [row.copy() for row in rows]; row.copy() is a new dict with
\* the keys of the record and the very same value objects
CSelect ==
    /\ got = <<>> /\ held # <<>>
    /\ heap' = heap \o [i \in 1..Len(held) |-> DictObj(heap[held[i]].fields)]
    /\ got' = [i \in 1..Len(held) |-> Len(heap) + i]
    /\ UNCHANGED <<storeVars, wildVars, filterVars, pArgs, held, other>>

\* the caller: result[i][key] = value
CSetField ==
    /\ \E i \in 1..Len(got), key \in {"n", "tags"}, value \in {I1, I2} :
          /\ key \in DOMAIN heap[got[i]].fields
          /\ heap' = [heap EXCEPT ![got[i]].fields[key] = value]
    /\ UNCHANGED <<storeVars, wildVars, filterVars, pArgs, held, got, other>>

\* the caller: result[i]["tags"].append(value)
CAppendNested ==
    /\ \E i \in 1..Len(got), value \in {I1, I2} :
          /\ "tags" \in DOMAIN heap[got[i]].fields
          /\ IsRef(heap[got[i]].fields["tags"])
          /\ LET id == heap[got[i]].fields["tags"][2]
             IN /\ Len(heap[id].items) < MaxItems
                /\ heap' = [heap EXCEPT ![id].items = Append(@, value)]
    /\ UNCHANGED <<storeVars, wildVars, filterVars, pArgs, held, got, other>>

NextCopy == CSelect \/ CSetField \/ CAppendNested

SpecCopy == InitCopy /\ [][NextCopy]_vars

(***************************************************************************)
(* SpecThreads: two threads on one store object opened with backup=False.  *)
(* The first thread is the caller of SpecTxn; the second calls             *)
(* exists_table, list_tables, count and insert.  `with self._lock` blocks  *)
(* a thread while the other one holds the RLock; exists_table and          *)
(* list_tables take no lock.  Between two releases of the lock the holder  *)
(* is the only thread that writes self._data, so each locked section is    *)
(* one step up to its call of _write_db, as above.                         *)
(***************************************************************************)
\* What a read returns on the store d.
ReadOf(call, arg, d) ==
    CASE call = "exists_table" -> <<"bool", InData(d, arg)>>
      [] call = "list_tables" -> <<"list", d.meta.tables>>
      [] OTHER -> IF InData(d, arg) THEN <<"int", Len(RowsAt(d, arg))>>
                  ELSE <<"err", "TableNotFoundError">>

\* What the second thread leaves alone.
otherFrame == <<pc, wctx, txn, lock, backupOn, clock, bak, tmp, ret, entry, wOld, legit, crashes,
               fails, wVal, wPat, wRes, fRows, fFilter, fRes, pArgs, heap, held, got>>

\* The first thread enters `with self._lock`: it holds the RLock already or the RLock is
\* free.  (It starts no call after a transaction while the second thread still keeps
\* what it read during that transaction.)
MainCall ==
    /\ lock > 0 \/ other.hold = 0
    /\ other.in => txn # <<>>
    /\ CreateTable \/ Insert \/ TxnEnter \/ TxnEnterNested

\* The second thread calls exists_table(name) or list_tables(), which read self._data at
\* once, or count(name), which waits in select for the RLock to be free.
ORead ==
    \E call \in {"exists_table", "list_tables", "count"}, name \in Names :
        /\ other.pc = "idle" /\ other.call = "none"
        /\ call = "count" => lock = 0
        /\ other' = [other EXCEPT !.call = call, !.arg = name, !.val = ReadOf(call, name, data),
                                  !.in = (txn # <<>>)]
        /\ UNCHANGED <<data, db>>
        /\ UNCHANGED otherFrame

\* The second thread drops what it read.
OForget ==
    /\ other.pc = "idle" /\ other.call \notin {"none", "insert"}
    /\ other' = NoOther
    /\ UNCHANGED <<data, db>>
    /\ UNCHANGED otherFrame

\* The second thread calls insert(name, {"b": 1}), its last call, and waits for the RLock.
OCall ==
    \E name \in Names :
        /\ other.pc = "idle" /\ other.call = "none"
        /\ other' = [other EXCEPT !.pc = "wants", !.call = "insert", !.arg = name]
        /\ UNCHANGED <<data, db>>
        /\ UNCHANGED otherFrame

\* A mutant of OInsert: insert appends without holding the RLock.
OInsertUnlocked ==
    /\ other.pc = "wants"
    /\ IF ~InData(data, other.arg)
       THEN /\ other' = [other EXCEPT !.pc = "idle", !.val = <<"err", "TableNotFoundError">>]
            /\ data' = data
       ELSE /\ other' = [other EXCEPT !.pc = "writing", !.hold = 0,
                                      !.base = RowsAt(data, other.arg)]
            /\ data' = SetRows(data, other.arg,
                               Append(RowsAt(data, other.arg), WithInsertedAt("b" :> I1, clock)))
    /\ UNCHANGED db
    /\ UNCHANGED otherFrame

\* insert in the second thread, once the RLock is free: the table check, the append, and
\* the RLock held by insert and again by _write_db
OInsert ==
    /\ other.pc = "wants"
    /\ lock = 0
    /\ IF ~InData(data, other.arg)
       THEN /\ other' = [other EXCEPT !.pc = "idle", !.val = <<"err", "TableNotFoundError">>]
            /\ data' = data
       ELSE /\ other' = [other EXCEPT !.pc = "writing", !.hold = 2,
                                      !.base = RowsAt(data, other.arg)]
            /\ data' = SetRows(data, other.arg,
                               Append(RowsAt(data, other.arg), WithInsertedAt("b" :> I1, clock)))
    /\ UNCHANGED db
    /\ UNCHANGED otherFrame

\* _write_db in the second thread (no backup): the file is replaced by the dump of
\* self._data, last_modified is set, and both holds of the RLock are released
OFinish ==
    /\ other.pc = "writing"
    /\ db' = Dump(data)
    /\ data' = [data EXCEPT !.meta.lm = clock]
    /\ other' = [other EXCEPT !.pc = "idle", !.hold = 0]
    /\ UNCHANGED otherFrame

NextThreads ==
    \/ MainCall
    \/ TxnCommit \/ TxnRaise
    \/ WBackup \/ WOpen \/ WDump \/ WReplace
    \/ Return
    \/ ORead \/ OForget \/ OCall \/ OInsert \/ OFinish

SpecThreads == InitTxn /\ [][NextThreads]_vars

\* SpecLive: SpecThreads with the scheduling the threads and the lock provide.  A
\* running _write_db goes on to its end, in either thread; the caller takes the result of
\* a finished call; the body of every transaction, nested or not, ends, by leaving the
\* block or by an exception (a body runs finitely many operations); a thread waiting for
\* the RLock gets it if the RLock is released again and again.
SpecLive ==
    /\ SpecThreads
    /\ WF_vars(WBackup \/ WOpen \/ WDump \/ WReplace)
    /\ WF_vars(Return)
    /\ \A n \in 1..MaxNest : SF_vars(Len(txn) = n /\ (TxnCommit \/ TxnRaise))
    /\ SF_vars(OInsert)
    /\ WF_vars(OFinish)

\* The names of the metadata list.
Registered(d) == IF d.meta.k = "dict" THEN {d.meta.tables[i] : i \in 1..Len(d.meta.tables)} ELSE {}

(***************************************************************************)
(* Claims on the persistence protocol (Spec).                              *)
(***************************************************************************)
\* C1: at every step of a durable write that started with a file at the
\* database path, the file at the database path is the complete previous
\* version or the complete new version: never absent, never partial.
C1_FileAlwaysWhole ==
    [][(pc \in WriteSteps /\ wOld # NoFile) => (db' = wOld \/ db' = Dump(data))]_vars

\* C2: when the process died and the store is opened again on the same path,
\* the collections loaded are those of the last completed write or those that
\* were being written: nothing persisted is lost.
C2_ReopenLoadsOldOrNew ==
    (ret.op = "open" /\ ret.err = "none") => data.tbl \in legit

(***************************************************************************)
(* Claims on transactions (SpecTxn).                                       *)
(***************************************************************************)
\* C3: when the body of a transaction raises, the in-memory store at the exit
\* of the transaction equals the store at its entry, and the error delivered
\* to the caller is the one that left the body.
C3_RollbackRestoresEntry ==
    [][(pc = "idle" /\ Len(txn') = Len(txn) - 1)
        => (/\ data' = Last(entry).mem
            /\ ret'.op = "transaction"
            /\ ret'.err = (IF ret = NoRet THEN "BodyError" ELSE ret.err))]_vars

\* A transaction was rolled back after its body had changed the store and
\* written the change: memory holds two records again, the file does not.
C3_Witness ==
    /\ ret.op = "transaction" /\ ret.arg = "body" /\ txn = <<>>
    /\ data.meta.k = "dict" /\ Registered(data) = DOMAIN data.tbl
    /\ Complete(db) /\ Load(db).tbl # data.tbl
    /\ \E n \in DOMAIN data.tbl : Len(data.tbl[n]) = 2

\* C4: at the exit of a transaction whose body raised, the file at the
\* database path holds the pre-transaction collections, which it held at the
\* entry and to which memory is rolled back: no operation of the body has
\* been made durable.
C4_FailedTxnLeavesFile ==
    [][(pc = "idle" /\ Len(txn') = Len(txn) - 1 /\ Last(entry).sync)
        => (Complete(db') /\ Load(db').tbl = data'.tbl)]_vars

C6_MetadataMatchesCollections ==
    pc = "idle" =>
        /\ data.meta.k = "dict"
        /\ Registered(data) = DOMAIN data.tbl
        /\ Cardinality(Registered(data)) = Len(data.meta.tables)
        /\ \A n \in DOMAIN data.tbl : ~StartsWithUnderscore(n)

TableOps == {"insert", "insert_many", "select", "update", "delete", "clear_table",
             "drop_table", "stats"}

\* C7: a call of insert, insert_many, select, update, delete, clear_table,
\* drop_table or stats with a name that is not in the metadata list raises
\* TableNotFoundError and leaves the in-memory store and the file unchanged.
C7_UnknownNameRaises ==
    [][(Ready /\ ret'.op \in TableOps /\ ret'.arg \notin Registered(data))
        => (ret'.err = "TableNotFoundError" /\ data' = data /\ db' = db)]_vars

(***************************************************************************)
(* Claims on the condition evaluator (SpecFilter, SpecWild).               *)
(***************************************************************************)
\* Does some (every) filter of the list fs match the record r?
SomeMatches(fs, r) == \E i \in 1..Len(fs) : ConditionFunc(fs[i], r) = "T"
AllMatch(fs, r) == \A i \in 1..Len(fs) : ConditionFunc(fs[i], r) = "T"

\* C8: select with {"$or": [f1, ..., fn]} returns exactly the records that at
\* least one fi matches, and with {"$and": [f1, ..., fn]} exactly those that
\* every fi matches.
C8_OrAndCombine ==
    (fRes.op = "select" /\ fFilter[1][1] \in {"$or", "$and"}) =>
        /\ fRes.err = "none"
        /\ fRes.rows = SelectSeq(fRows,
               LAMBDA r : IF fFilter[1][1] = "$or" THEN SomeMatches(fFilter[1][2][2], r)
                          ELSE AllMatch(fFilter[1][2][2], r))

\* Does some field's operator mapping hold an operator the evaluator does not know?
HasUnknownOp(filters) ==
    \E i \in 1..Len(filters) :
        /\ filters[i][2][1] = "dict"
        /\ \E j \in 1..Len(filters[i][2][2]) : filters[i][2][2][j][1] \notin KnownOps

\* C9: select, update and delete with a filter in which some operator mapping
\* holds an unrecognized operator raise QueryError, whatever the collection
\* holds and whatever accompanies the operator, and leave the collection as
\* it was.
C9_UnknownOperatorRaises ==
    (fRes.op # "none" /\ HasUnknownOp(fFilter)) =>
        /\ fRes.err = "QueryError"
        /\ fRes.op \in {"update", "delete"} => fRes.rows = fRows

\* Glob matching: '*' stands for any run of characters, '?' for exactly one,
\* every other character for itself, without regard to case.
RECURSIVE GlobMatch(_, _)
GlobMatch(p, v) ==
    IF p = <<>> THEN v = <<>>
    ELSE IF Head(p) = "*"
         THEN GlobMatch(Tail(p), v) \/ (v # <<>> /\ GlobMatch(p, Tail(v)))
         ELSE /\ v # <<>>
              /\ (Head(p) = "?" \/ LowerChar(Head(p)) = LowerChar(Head(v)))
              /\ GlobMatch(Tail(p), Tail(v))

\* C10: for a pattern holding '*' or '?', literal matching and $like hold
\* exactly when the stringified value matches the pattern as a glob.
C10_WildcardIsGlob ==
    wRes.how # "none" => ((wRes.res = "T") <=> GlobMatch(wPat, PyStr(wVal)))

(***************************************************************************)
(* Claims on the operations (SpecOps).                                     *)
(***************************************************************************)
\* The positions of the records of rows that satisfy the filter.
Matching(rows, filters) == {i \in 1..Len(rows) : ConditionFunc(filters, rows[i]) = "T"}

\* Every collection other than name is the same in d and e.
OthersSame(d, e, name) ==
    /\ DOMAIN e.tbl = DOMAIN d.tbl
    /\ \A m \in DOMAIN d.tbl \ {name} : e.tbl[m] = d.tbl[m]

\* new is old merged with the fields of updater, plus an _updated_at field.
IsMerged(new, old, updater) ==
    /\ DOMAIN new = DOMAIN old \cup DOMAIN updater \cup {"_updated_at"}
    /\ \A k \in DOMAIN updater \ {"_updated_at"} : new[k] = updater[k]
    /\ \A k \in DOMAIN old \ (DOMAIN updater \cup {"_updated_at"}) : new[k] = old[k]

\* The call that starts in this step neither raised nor failed before _write_db.
CallGoesOn(op) == Ready /\ ret'.op = op /\ ret'.err \in {"none", "running"}

\* C13: update with a dict updater on a registered collection returns the
\* number of records that satisfied the filter before the call; each of them
\* is replaced at its position by the merged record with an _updated_at
\* field; the other records, the length and order of the collection and the
\* other collections are unchanged.
C13_UpdateReplacesInPlace ==
    [][(CallGoesOn("update") /\ ret'.arg \in Registered(data)) =>
        LET old == data.tbl[ret'.arg]
            new == data'.tbl[ret'.arg]
            hit == Matching(old, ret'.inp)
        IN /\ ret'.val = Cardinality(hit)
           /\ Len(new) = Len(old)
           /\ \A i \in 1..Len(old) :
                  IF i \in hit THEN IsMerged(new[i], old[i], Updater1) ELSE new[i] = old[i]
           /\ OthersSame(data, data', ret'.arg)]_vars

\* update returned 1 on a collection of two records: one matched, one did not.
C13_Witness ==
    /\ pc = "idle" /\ ret.op = "update" /\ ret.err = "none" /\ ret.val = 1
    /\ ret.arg \in Registered(data)
    /\ Len(data.tbl[ret.arg]) = 2
    /\ "_updated_at" \notin DOMAIN data.tbl[ret.arg][1]

C15_WriteOnlyIfMatched ==
    [][/\ (CallGoesOn("update") \/ CallGoesOn("delete")) /\ ret'.arg \in Registered(data) =>
            IF ret'.val = 0
            THEN /\ ret'.err = "none" /\ pc' = "idle"
                 /\ db' = db /\ bak' = bak /\ tmp' = tmp
                 /\ data'.meta.lm = data.meta.lm
            ELSE ret'.err = "running" /\ pc' = "w_backup"
       /\ (pc \in WriteSteps /\ ret.op \in {"update", "delete"} /\ pc' = "idle"
             /\ ret'.err = "none") =>
            /\ pc = "w_replace"
            /\ db' = Dump(data)
            /\ ret'.val = ret.val /\ ret'.val > 0]_vars

\* update returned 0 on a collection that holds records, and nothing was written.
C15_Witness ==
    /\ pc = "idle" /\ ret.op = "update" /\ ret.err = "none" /\ ret.val = 0
    /\ ret.arg \in Registered(data)
    /\ Len(data.tbl[ret.arg]) > 0
    /\ tmp = NoFile /\ db = Dump(data)

\* rec is the record given plus an _inserted_at field.
IsStamped(rec, given) ==
    /\ DOMAIN rec = DOMAIN given \cup {"_inserted_at"}
    /\ \A k \in DOMAIN given \ {"_inserted_at"} : rec[k] = given[k]

\* C16: insert on a registered collection with a mapping appends one record,
\* the given one plus an _inserted_at field, at the end of the collection;
\* the records the collection held keep content and order and the other
\* collections are unchanged.  With a record that is not a mapping insert
\* raises QueryError and leaves memory and the file unchanged.
C16_InsertAppendsOne ==
    [][(Ready /\ ret'.op = "insert" /\ ret'.arg \in Registered(data)) =>
        LET old == data.tbl[ret'.arg]
            new == data'.tbl[ret'.arg]
        IN IF ret'.inp[1] = "dict"
           THEN /\ ret'.err = "running"
                /\ Len(new) = Len(old) + 1
                /\ SubSeq(new, 1, Len(old)) = old
                /\ IsStamped(new[Len(new)], ret'.inp[2])
                /\ OthersSame(data, data', ret'.arg)
           ELSE /\ ret'.err = "QueryError"
                /\ data' = data
                /\ db' = db /\ pc' = "idle"]_vars

\* insert returned after appending to a collection that held an updated record.
C16_Witness ==
    /\ pc = "idle" /\ ret.op = "insert" /\ ret.err = "none"
    /\ ret.arg \in Registered(data)
    /\ Len(data.tbl[ret.arg]) = 2
    /\ "_updated_at" \in DOMAIN data.tbl[ret.arg][1]
    /\ "_updated_at" \notin DOMAIN data.tbl[ret.arg][2]
    /\ db = Dump([data EXCEPT !.meta.lm = Load(db).meta.lm])

\* Is the rows argument a list whose elements are all mappings?
AllMappings(rows) == rows[1] = "list" /\ \A i \in 1..Len(rows[2]) : rows[2][i][1] = "dict"

\* C17: insert_many on a registered collection is all or nothing.  With a
\* list of mappings every record is appended, stamped, in the order given,
\* and the call goes through one durable write, after which the file holds
\* the store and the call returns the number of records given.  Otherwise
\* it raises, appends nothing and writes nothing.
C17_InsertManyAllOrNothing ==
    [][/\ (Ready /\ ret'.op = "insert_many" /\ ret'.arg \in Registered(data)) =>
            LET old == data.tbl[ret'.arg]
                new == data'.tbl[ret'.arg]
            IN IF AllMappings(ret'.inp)
               THEN /\ ret'.err = "running" /\ pc' = "w_backup"
                    /\ Len(new) = Len(old) + Len(ret'.inp[2])
                    /\ SubSeq(new, 1, Len(old)) = old
                    /\ \A i \in 1..Len(ret'.inp[2]) :
                           IsStamped(new[Len(old) + i], ret'.inp[2][i][2])
                    /\ OthersSame(data, data', ret'.arg)
               ELSE /\ ret'.err \notin {"none", "running"}
                    /\ data' = data
                    /\ pc' = "idle" /\ db' = db /\ bak' = bak /\ tmp' = tmp
       /\ (pc \in WriteSteps /\ ret.op = "insert_many" /\ pc' = "idle") =>
            /\ pc = "w_replace"
            /\ ret'.err = "none"
            /\ ret'.val = Len(ret.inp[2])
            /\ db' = Dump(data)]_vars

\* C20: when the durable write of a mutation outside a transaction fails, the
\* operation raises, the file at the database path is still the complete
\* version it was before the operation, and the in-memory store does not hold
\* the mutation: its collections are those of that version.
C20_FailedWriteAborts ==
    [][(pc \in WriteSteps /\ wctx = "op" /\ pc' = "idle" /\ ret'.err = "CafeDBError") =>
        /\ db' = wOld
        /\ Complete(db')
        /\ data'.tbl = Load(wOld).tbl]_vars

(***************************************************************************)
(* Claims on the files (SpecTrip, Spec).                                   *)
(***************************************************************************)
\* C18: after a successful durable write, a store opened on the same path
\* equals the in-memory store of the writer: same collections, same
\* records, same metadata values, last_modified included.
C18_ReopenEqualsWriter ==
    [][(pc = "w_replace" /\ pc' = "idle" /\ ret'.err = "none") =>
        \A t \in Now : OpenLoad(db', t) = data']_vars

\* C19: with backup enabled, when a durable write that found a file at the
\* database path completes, the backup file is the file the database path
\* held before that write, whatever backup there was before, the database
\* path holds the store written, and no temporary file is left.
C19_BackupIsPreviousVersion ==
    [][(pc = "w_replace" /\ pc' = "idle" /\ backupOn /\ wOld # NoFile) =>
        /\ bak' = wOld
        /\ db' = Dump(data)
        /\ tmp' = NoFile]_vars

\* A second insert has completed with backup enabled: the backup holds the
\* collection with one record, written by the first, the file holds two.
C19_Witness ==
    /\ pc = "idle" /\ backupOn /\ ret.op = "insert" /\ ret.err = "none"
    /\ tmp = NoFile
    /\ Complete(bak) /\ Complete(db)
    /\ ret.arg \in DOMAIN Load(bak).tbl
    /\ Len(Load(bak).tbl[ret.arg]) = 1
    /\ Len(Load(db).tbl[ret.arg]) = 2

(***************************************************************************)
(* Claims on select's sorting and pagination (SpecPage).                   *)
(***************************************************************************)
\* the rows the filter keeps, and the select with offset=0 and limit=None
Kept == FilterRows(fRows, fFilter).rows
FullResult == SelectPage(fRows, fFilter, [pArgs EXCEPT !.offset = 0, !.limit = NoLimit]).rows

Occurrences(q, x) == Cardinality({i \in 1..Len(q) : q[i] = x})
SamePopulation(q, r) == Len(q) = Len(r) /\ \A i \in 1..Len(q) : Occurrences(q, q[i]) = Occurrences(r, q[i])

Max0(a) == IF a < 0 THEN 0 ELSE a

\* elements k+1 .. k+n of q, as many as exist; all from k+1 on without a limit
Page(q, k, limit) ==
    [i \in 1..(IF limit = NoLimit THEN Max0(Len(q) - k) ELSE Min(limit[2], Max0(Len(q) - k))) |-> q[k + i]]

\* the collection with the records at i and i+1 inserted the other way round
Swapped(rows, i) ==
    [k \in 1..Len(rows) |-> IF k = i THEN rows[i + 1] ELSE IF k = i + 1 THEN rows[i] ELSE rows[k]]

OrderIndependent ==
    \A i \in 1..(Len(fRows) - 1) : SelectPage(Swapped(fRows, i), fFilter, pArgs).rows = fRes.rows

IsPage ==
    /\ SamePopulation(FullResult, Kept)
    /\ pArgs.order_by # "" =>
         \A i \in 1..(Len(FullResult) - 1) :
            ~Before(FullResult[i + 1], FullResult[i], pArgs.order_by,
                    SortMode(Kept, pArgs.order_by), pArgs.reverse)
    /\ fRes.rows = Page(FullResult, pArgs.offset, pArgs.limit)

\* the values of the sort field differ from one record to the next
DistinctValues ==
    \A i, j \in 1..Len(fRows) :
        i # j => SortValue(fRows[i], pArgs.order_by) # SortValue(fRows[j], pArgs.order_by)

\* the keys sorted() compares (the values, or their str() forms when int and str are mixed)
\* differ from one kept record to the next
DistinctKeys ==
    \A i, j \in 1..Len(Kept) :
        i # j => SortKey(Kept[i], pArgs.order_by, SortMode(Kept, pArgs.order_by))
                 # SortKey(Kept[j], pArgs.order_by, SortMode(Kept, pArgs.order_by))

\* C11, as stated: the result of select is elements k+1 .. k+n of the filtered and sorted
\* sequence, and with a sort field it does not depend on the order in which records whose
\* sort-field values are distinct were inserted.
C11_PageIgnoresInsertionOrder ==
    (fRes.op = "select" /\ fRes.err = "none") =>
        /\ IsPage
        /\ (pArgs.order_by # "" /\ DistinctValues) => OrderIndependent

\* C11, amended: the result of select is elements k+1 .. k+n of the filtered and sorted
\* sequence, and with a sort field it does not depend on the order in which records were
\* inserted when the keys the sort compares are distinct: the values of the sort field if
\* they are of one type, their string forms if int and str are mixed.
C11_PageOfSortedResult ==
    (fRes.op = "select" /\ fRes.err = "none") =>
        /\ IsPage
        /\ (pArgs.order_by # "" /\ DistinctKeys) => OrderIndependent

\* offset=2, limit=2 on four kept records inserted out of order: the 3rd and 4th in sorted order
C11_Witness ==
    /\ fRes.op = "select" /\ fRes.err = "none"
    /\ pArgs.order_by = "a" /\ pArgs.offset = 2 /\ pArgs.limit = <<"int", 2>>
    /\ Len(Kept) = 4 /\ DistinctKeys
    /\ fRes.rows = <<FullResult[3], FullResult[4]>>
    /\ fRes.rows # <<Kept[3], Kept[4]>>

(***************************************************************************)
(* Claims on the records select returns (SpecCopy).                        *)
(***************************************************************************)
\* the value of a record: its scalars, and the contents of the lists it refers to
RecordValue(id) ==
    [key \in DOMAIN heap[id].fields |->
        IF IsRef(heap[id].fields[key]) THEN <<"list", heap[heap[id].fields[key][2]].items>>
        ELSE heap[id].fields[key]]

\* the records the store holds, by value
HeldValue == [i \in 1..Len(held) |-> RecordValue(held[i])]

\* C12: nothing the caller does to a record select returned, nor to a list nested in
\* it, changes the value of a record the store holds.
C12_ResultIsIndependent == [][HeldValue' = HeldValue]_vars

(***************************************************************************)
(* Claims on opening a store (Spec).                                       *)
(***************************************************************************)
\* C29: opening a store on a path without a file gives a store without collections
\* and, when the call has returned, a complete file that loads as that store; opening
\* it on a complete file loads the collections of the file and leaves the database,
\* backup and temporary files as they were.
C29_OpenInitializesOrLoads ==
    [][/\ (pc = "dead" /\ db = NoFile /\ ret'.op = "open") =>
             (data'.tbl = EmptyTbl /\ data'.meta.k = "dict" /\ data'.meta.tables = <<>>)
       /\ (pc = "dead" /\ Complete(db) /\ ret'.op = "open") =>
             (/\ ret'.err = "none" /\ pc' = "idle"
              /\ data'.tbl = Load(db).tbl
              /\ db' = db /\ bak' = bak /\ tmp' = tmp)
       /\ (wctx = "init" /\ pc \in WriteSteps) =>
             (data'.tbl = EmptyTbl /\ bak' = bak)
       /\ (pc # "idle" /\ pc' = "idle" /\ ret'.op = "open" /\ ret'.err = "none") =>
             (Complete(db') /\ Load(db').tbl = data'.tbl)]_vars

\* the store was opened on a path without a file (the previous version had been
\* moved to the backup path) and the initial write is done
C29_Witness ==
    /\ ret.op = "open" /\ ret.err = "none" /\ pc = "idle"
    /\ bak # NoFile
    /\ db = Dump(FreshData(clock))
    /\ data.tbl = EmptyTbl

(***************************************************************************)
(* Claims on the reads (Spec).                                             *)
(***************************************************************************)
\* C24: a call of select or count with a dict filter changes neither the store in memory
\* (records, their order, the metadata) nor any file, and what it raises and returns is
\* determined by its arguments and the store it leaves, so that the same call on the
\* unmodified store returns the same.
C24_SelectIsPure ==
    [][(Ready /\ ret'.op \in {"select", "count"}) =>
          /\ data' = data /\ db' = db /\ bak' = bak /\ tmp' = tmp
          /\ ret'.err = SelectResult(ret'.arg, ret'.inp[1]).err
          /\ ret'.inp[2] = SelectResult(ret'.arg, ret'.inp[1]).rows
          /\ ret'.op = "count" => ret'.val = Len(SelectResult(ret'.arg, ret'.inp[1]).rows)]_vars

\* select returned one record of a collection of two
C24_Witness ==
    /\ ret.op = "select" /\ ret.err = "none" /\ Len(ret.inp[2]) = 1
    /\ Len(RowsAt(data, ret.arg)) = 2

(***************************************************************************)
(* Claims on operator mappings and field presence (SpecFilter).            *)
(***************************************************************************)
\* condition_func(row) returns True
Matches(filters, row) == ConditionFunc(filters, row) = "T"

\* every field's condition matches the record, an operator mapping being taken one
\* operator at a time
EachAloneMatches(filters, row) ==
    \A i \in 1..Len(filters) :
        IF filters[i][2][1] = "dict"
        THEN \A j \in 1..Len(filters[i][2][2]) :
                Matches(<< <<filters[i][1], <<"dict", <<filters[i][2][2][j]>>>>>> >>, row)
        ELSE Matches(<<filters[i]>>, row)

\* some operator mapping of the filter holds $exists
HasExists(filters) ==
    \E i \in 1..Len(filters) : filters[i][2][1] = "dict" /\ HasKey(filters[i][2][2], "$exists")

\* C25, as stated: a record matches a filter exactly when every operator of every
\* field's mapping, taken alone, matches it and every field's condition matches it.
C25_OperatorsAndFieldsConjoin ==
    fRes.op = "select" =>
        \A i \in 1..Len(fRows) : Matches(fFilter, fRows[i]) <=> EachAloneMatches(fFilter, fRows[i])

\* C25, amended: the same for the filters none of whose operator mappings holds $exists
\* (with $exists the rest of the mapping is not evaluated), and select returns exactly
\* the records that match.
C25_ConjoinWithoutExists ==
    (fRes.op = "select" /\ ~HasExists(fFilter)) =>
        /\ \A i \in 1..Len(fRows) :
              Matches(fFilter, fRows[i]) <=> EachAloneMatches(fFilter, fRows[i])
        /\ fRes.err = "none" =>
              \A i \in 1..Len(fRows) :
                  EachAloneMatches(fFilter, fRows[i]) <=> \E k \in 1..Len(fRes.rows) : fRes.rows[k] = fRows[i]

\* a mapping of two operators: one record passes both, another passes the first only
C25_Witness ==
    /\ fRes.op = "select" /\ fRes.err = "none" /\ ~HasExists(fFilter)
    /\ Len(fFilter) = 1 /\ fFilter[1][2][1] = "dict" /\ Len(fFilter[1][2][2]) = 2
    /\ Len(fRows) = 2 /\ Len(fRes.rows) = 1
    /\ \E i \in 1..2 :
          /\ ~Matches(fFilter, fRows[i])
          /\ Matches(<< <<fFilter[1][1], <<"dict", <<fFilter[1][2][2][1]>>>>>> >>, fRows[i])

\* the records of rows in which the field is present (want = TRUE) or absent (want = FALSE)
RECURSIVE WithPresence(_, _, _)
WithPresence(rows, field, want) ==
    IF rows = <<>> THEN <<>>
    ELSE (IF (field \in DOMAIN Head(rows)) = want THEN <<Head(rows)>> ELSE <<>>)
         \o WithPresence(Tail(rows), field, want)

\* C26: when the operator mapping of a field holds $exists, select raises nothing and
\* returns exactly the records that have the field ($exists true) or lack it ($exists
\* false), whatever other operator the mapping holds.
C26_ExistsDecidesAlone ==
    (fRes.op = "select" /\ Len(fFilter) = 1 /\ HasExists(fFilter)) =>
        /\ fRes.err = "none"
        /\ fRes.rows = WithPresence(fRows, fFilter[1][1], Get(fFilter[1][2][2], "$exists")[2])

\* $exists next to an operator that alone excludes the record kept or raises on it
C26_Witness ==
    /\ fRes.op = "select" /\ Len(fFilter) = 1 /\ HasExists(fFilter)
    /\ Len(fFilter[1][2][2]) = 2
    /\ Len(fRows) = 2 /\ Len(fRes.rows) = 1
    /\ ~EachAloneMatches(fFilter, fRes.rows[1])

\* the i-th condition of the filter holds no $exists and is on a field the record lacks
LacksField(filters, i, row) ==
    /\ ~HasExists(<<filters[i]>>)
    /\ filters[i][1] \notin DOMAIN row

\* C27: a record that lacks the field of a condition without $exists is excluded:
\* the condition alone evaluates to False on it without raising, the filter does not
\* match it and select does not return it.
C27_AbsentFieldExcludes ==
    fRes.op = "select" =>
        \A r \in 1..Len(fRows), i \in 1..Len(fFilter) :
            LacksField(fFilter, i, fRows[r]) =>
                /\ ConditionFunc(<<fFilter[i]>>, fRows[r]) = "F"
                /\ ~Matches(fFilter, fRows[r])
                /\ \A k \in 1..Len(fRes.rows) : fRes.rows[k] # fRows[r]

\* $ne or $nin on a field: the record without the field is left out, the other is returned
C27_Witness ==
    /\ fRes.op = "select" /\ fRes.err = "none"
    /\ Len(fFilter) = 1 /\ fFilter[1][2][1] = "dict"
    /\ fFilter[1][2][2][1][1] \in {"$ne", "$nin"}
    /\ Len(fRows) = 2 /\ LacksField(fFilter, 1, fRows[1])
    /\ fRes.rows = <<fRows[2]>>

(***************************************************************************)
(* Claims on the order select returns (SpecPage).                          *)
(***************************************************************************)
\* x is not after y in ascending order: by value when the kept records hold values of
\* one type under the sort field, by str(value) when int and str are mixed
NotAfter(x, y) ==
    IF SortMode(Kept, pArgs.order_by) = "native"
    THEN PyLessEq(SortValue(x, pArgs.order_by), SortValue(y, pArgs.order_by)) = "T"
    ELSE ~StrLess(PyStr(SortValue(y, pArgs.order_by)), PyStr(SortValue(x, pArgs.order_by)))

\* x is not after y in numeric order when both hold an int under the sort field
NotAfterNumeric(x, y) ==
    (IsInt(SortValue(x, pArgs.order_by)) /\ IsInt(SortValue(y, pArgs.order_by)))
        => SortValue(x, pArgs.order_by)[2] <= SortValue(y, pArgs.order_by)[2]

\* C28, as stated: select with order_by does not raise and, among the records that hold
\* a number under the sort field, returns them in non-decreasing numeric order
\* (non-increasing with reverse), whatever the other records hold.
C28_NumbersInNumericOrder ==
    (fRes.op = "select" /\ pArgs.order_by # "") =>
        /\ fRes.err = "none"
        /\ \A i, j \in 1..Len(FullResult) :
              i < j => IF pArgs.reverse THEN NotAfterNumeric(FullResult[j], FullResult[i])
                                        ELSE NotAfterNumeric(FullResult[i], FullResult[j])

\* C28, amended: select with order_by does not raise and returns the filtered records
\* in ascending order (descending with reverse) of the sort-field values when these are
\* of one type, and of their string forms when int and str values are mixed, a record
\* lacking the field counting as the empty string.
C28_SortedByUsedKey ==
    (fRes.op = "select" /\ pArgs.order_by # "") =>
        /\ fRes.err = "none"
        /\ SamePopulation(FullResult, Kept)
        /\ \A i, j \in 1..Len(FullResult) :
              i < j => IF pArgs.reverse THEN NotAfter(FullResult[j], FullResult[i])
                                        ELSE NotAfter(FullResult[i], FullResult[j])

\* descending order of three numbers inserted in another order
C28_Witness ==
    /\ fRes.op = "select" /\ pArgs.order_by = "a" /\ pArgs.reverse
    /\ pArgs.offset = 0 /\ pArgs.limit = NoLimit
    /\ Len(Kept) = 3 /\ DistinctKeys /\ SortMode(Kept, "a") = "native"
    /\ fRes.rows # Kept
    /\ fRes.rows[1]["a"][2] > fRes.rows[2]["a"][2] /\ fRes.rows[2]["a"][2] > fRes.rows[3]["a"][2]

(***************************************************************************)
(* Claims on nested transactions (SpecNest).                               *)
(***************************************************************************)
\* C30: a transaction that is left by an exception puts the store back to what it was
\* at its own entry, whether or not a transaction nested in it has committed before;
\* when a nested transaction is left by an exception the snapshot of the enclosing
\* transaction stays, and the enclosing transaction, once its body ends, commits what
\* memory then holds: the store of the nested entry and the operations after it.
C30_RollbackToOwnEntry ==
    [][/\ (pc = "idle" /\ Len(txn') = Len(txn) - 1) =>
             (data' = Last(entry).mem /\ txn' = Front(txn))
       /\ (pc = "w_replace" /\ wctx = "commit" /\ ret'.err = "none") =>
             (/\ data'.tbl = data.tbl /\ txn' = Front(txn)
              /\ Complete(db') /\ Load(db').tbl = data.tbl)]_vars

\* a nested transaction has just been left by an exception: the enclosing transaction
\* is open and the store keeps what its body did before the nested entry
C30_Witness ==
    /\ ret.op = "transaction" /\ ret.arg = "body" /\ pc = "idle"
    /\ Len(txn) = 1
    /\ data.tbl # entry[1].mem.tbl

(***************************************************************************)
(* Claims on two threads (SpecThreads).                                    *)
(***************************************************************************)
\* C21: no read of another thread observes a partially applied transaction:
\* when the outermost transaction of the first thread ends, by commit or by
\* rollback, what the second thread read while it was open is what the
\* same read returns on the store as it was at the transaction's entry or on
\* the store at its exit.
C21_ReaderSeesBeforeOrAfter ==
    [][(txn # <<>> /\ txn' = <<>> /\ other.in) =>
          \/ other.val = ReadOf(other.call, other.arg, entry[1].mem)
          \/ other.val = ReadOf(other.call, other.arg, data')]_vars

\* C22: the mutations of the two threads are serialized and none is lost: the
\* two threads never hold the lock together; self._data is changed only by
\* a thread that holds the lock or takes it free; no step of the second
\* thread changes self._data between a transaction's entry and its exit;
\* the insert of the second thread ends with its collection holding what it
\* held when the lock was taken, plus the inserted record; an insert of the
\* first thread ends with its record last in its collection.
C22_SerializedNoneLost ==
    /\ [](~(lock > 0 /\ other.hold > 0))
    /\ [][/\ (data' # data /\ other' # other) => lock = 0
          /\ (data' # data /\ other' = other) => other.hold = 0
          /\ (txn # <<>> /\ other' # other) => data' = data
          /\ (other.pc = "writing" /\ other'.pc = "idle") =>
                RowsAt(data', other.arg) =
                    Append(other.base, WithInsertedAt("b" :> I1, clock))
          /\ (pc = "w_replace" /\ ret.op = "insert" /\ ret'.err = "none") =>
                Last(RowsAt(data', ret.arg)) = WithInsertedAt(Row1, clock)]_vars

\* the second thread has completed its insert into a collection that held a record of
\* the first thread when the lock was taken: both records are there
C22_Witness ==
    /\ other.call = "insert" /\ other.pc = "idle" /\ other.val = <<"none">>
    /\ other.base # <<>>
    /\ RowsAt(data, other.arg) = Append(other.base, WithInsertedAt("b" :> I1, clock))

(***************************************************************************)
(* Claims on the lock (SpecLive).                                          *)
(***************************************************************************)
\* C23: the lock is re-entrant and always released: between two calls the
\* first thread holds it once per open transaction and the second thread
\* holds it only inside its insert; inside a transaction the first thread
\* can always start its next call; every running call of either thread
\* completes, every open transaction is left, and a thread waiting for the
\* lock gets it.
C23_LockReentrantAndReleased ==
    /\ [](pc = "idle" => lock = Len(txn))
    /\ [](other.hold > 0 => other.pc = "writing")
    /\ []((Ready /\ txn # <<>>) => ENABLED MainCall)
    /\ (pc # "idle") ~> (pc = "idle")
    /\ (txn # <<>>) ~> (txn = <<>>)
    /\ (other.pc # "idle") ~> (other.pc = "idle")

\* inside a nested transaction the first thread has completed an insert, while the
\* second thread waits for the lock
C23_Witness ==
    /\ Len(txn) = 2
    /\ pc = "idle" /\ ret.op = "insert" /\ ret.err = "none"
    /\ other.pc = "wants"

(***************************************************************************)
(* Claims on an update that raises (SpecFilter).                           *)
(***************************************************************************)
\* C31: an update call in which the evaluation of the filter raises on some
\* record has replaced no record: the collection the call leaves in memory
\* is the collection it found.
C31_UpdateAllOrNothing ==
    (fRes.op = "update" /\ fRes.err # "none") => fRes.rows = fRows

====
